---- MODULE Spec2Model ----
(***************************************************************************)
(* Verification model of the 2api gateway.                                 *)
(*                                                                         *)
(*  Part I   the credential pool         src/app/core/token_manager.py     *)
(*  Part II  the retry/failover orchestrator and stream translation        *)
(*                                       src/app/core/openai.py            *)
(*                                                                         *)
(* Strings that the code inspects character by character (file lines, the  *)
(* BACKUP_TOKEN setting, credential values) are sequences of one-character *)
(* strings. Optional values are sequences of length <= 1.                  *)
(***************************************************************************)
EXTENDS Integers, Sequences, FiniteSets, TLC

\* ------------------------------------------------------------------ bounds
\* how many reload intervals can have passed between the start of the
\* process and the first use of the pool
MaxTicks == 1
\* cap on failure_count (mark_token_failed keeps counting on a dead entry)
MaxFailureCount == 4
\* how many calls of get_next_token a recorded run puts on record
MaxRecorded == 6

\* ------------------------------------------------------- program constants
max_failures == 3
reload_interval == 60
MAX_RETRIES == 3

\* seconds per clock step (more than reload_interval) and the time the
\* process starts at
TickSeconds == reload_interval + 1
StartTime == reload_interval + TickSeconds

\* the threads that use the pool; MainThread is the one of the serial runs
Threads == {1, 2}
MainThread == CHOOSE t \in Threads : \A u \in Threads : t <= u

None == <<>>
Some(x) == <<x>>
\* what get_next_token returns when it returns None
NoToken == <<"None">>
\* no call of get_next_token is returning
NoCall == <<"-">>

\* --------------------------------------------------------- string helpers
IsSpace(c) == c \in {" ", "\n"}

RECURSIVE LStrip(_)
LStrip(s) == IF s = <<>> THEN s
             ELSE IF IsSpace(Head(s)) THEN LStrip(Tail(s)) ELSE s

RECURSIVE RStrip(_)
RStrip(s) == IF s = <<>> THEN s
             ELSE IF IsSpace(s[Len(s)]) THEN RStrip(SubSeq(s, 1, Len(s) - 1))
             ELSE s

\* str.strip()
strip(s) == RStrip(LStrip(s))

\* str.startswith(p)
startswith(s, p) == Len(s) >= Len(p) /\ SubSeq(s, 1, Len(p)) = p

RECURSIVE SplitAcc(_, _, _)
SplitAcc(s, sep, cur) ==
    IF s = <<>> THEN <<cur>>
    ELSE IF Head(s) = sep THEN <<cur>> \o SplitAcc(Tail(s), sep, <<>>)
    ELSE SplitAcc(Tail(s), sep, Append(cur, Head(s)))

\* str.split(sep) for a one-character separator
split(s, sep) == SplitAcc(s, sep, <<>>)

RECURSIVE FilterNonEmpty(_)
FilterNonEmpty(ss) ==
    IF ss = <<>> THEN <<>>
    ELSE IF strip(Head(ss)) # <<>>
         THEN <<strip(Head(ss))>> \o FilterNonEmpty(Tail(ss))
         ELSE FilterNonEmpty(Tail(ss))

\* [token.strip() for token in settings.BACKUP_TOKEN.split(',') if token.strip()]
BackupTokens(b) == FilterNonEmpty(split(b, ","))

\* ------------------------------------------------- the environment's inputs
Line(s) == s \o <<"\n">>

FileMissing == [exists |-> FALSE, readable |-> FALSE, lines |-> <<>>]
FileUnreadable == [exists |-> TRUE, readable |-> FALSE, lines |-> <<>>]
FileOf(ls) == [exists |-> TRUE, readable |-> TRUE, lines |-> ls]

\* what tokens.txt can hold when a load opens it
FileChoices ==
    { FileMissing,
      FileUnreadable,
      FileOf(<<>>),
      FileOf(<<Line(<<"a">>), Line(<<"b">>)>>),
      FileOf(<<Line(<<" ", "b", " ">>), Line(<<"#", "c">>), Line(<<>>), <<"a">>>>),
      FileOf(<<Line(<<"a">>), Line(<<"a">>)>>),
      FileOf(<<Line(<<"b">>)>>) }

\* values of settings.BACKUP_TOKEN
BackupChoices == { <<>>, <<"a", ",", " ", ",">> }

\* credential values callers report on: the pooled ones and a guest
\* credential that never is in the pool
ReportTokens == { <<"a">>, <<"b">>, <<"g">> }

Min(S) == CHOOSE x \in S : \A y \in S : x <= y


\* ------------------------------------------------------------------- state
VARIABLES
    backup,           \* settings.BACKUP_TOKEN
    now,              \* time.time()
    heap,             \* the live TokenInfo objects; a reference is an index
    tokens,           \* self.tokens: a list of references to TokenInfo
    current_index,    \* self.current_index
    last_reload_time, \* self.last_reload_time
    lock,             \* self._lock: 0 when free, else the holder
    pc,               \* per thread: where it is
    caller,           \* per thread: who called _load_tokens
    lines,            \* per thread: the lines (then backup tokens) left
    new_tokens,       \* per thread: new_tokens of _load_tokens
    token_index,      \* per thread: token_index of get_next_token
    granted,          \* per thread: this call took the branch of lines 155-161
    ret,              \* per thread: what get_next_token is returning
    returned,         \* what get_next_token returned, call after call, once
                      \* recording has started
    \* ---- one request in stream_response (Part II)
    where,            \* where the generator is
    retry_count,      \* retry_count
    current_token,    \* current_token
    transformed,      \* the credentials in transformed["config"]
    body,             \* what is left of the response body being read
    has_thinking,     \* has_thinking
    first_thinking_chunk, \* first_thinking_chunk
    line_count,       \* line_count
    content_chunk,    \* whether the local content_chunk has been assigned
    out,              \* the records yielded to the client so far
    last_error,       \* last_error
    attempts,         \* how each pass of the loop went that asked for a new
                      \* credential in vain or called the upstream: the
                      \* status, or what was raised
    reports,          \* how many times mark_token_failure was called
    lines_read,       \* the lines read from the body of the current response
    client,           \* "here", or "gone" once the client has disconnected
    \* ---- the bytes of one response body (Part III)
    pending,          \* the bytes of the body that aiter_bytes has yet to give
    arrived,          \* the bytes of the body it has given
    buffer,           \* buffer
    incomplete_line,  \* incomplete_line
    events,           \* the payloads json.loads has accepted so far
    \* ---- one request in a handler of response_handlers.py (Part IV)
    handler,          \* "none", "stream" or "nonstream": the class of self
    hpc,              \* where handle() is
    auth_token,       \* self.auth_token
    call_retry_count, \* retry_count of _call_upstream
    response,         \* what is left of the events of the response
    sent_initial_answer,       \* sent_initial_answer
    self_first_thinking_chunk, \* self.first_thinking_chunk
    in_thinking_phase,         \* self.in_thinking_phase
    full_content,     \* full_content
    yielded,          \* what StreamResponseHandler.handle has yielded
    result,           \* how handle() ended
    has_tools,        \* self.has_tools
    buffered_content, \* self.buffered_content
    message           \* the message and finish_reason of the JSONResponse

vars == <<backup, now, heap, tokens, current_index, last_reload_time,
          lock, pc, caller, lines, new_tokens, token_index, granted, ret,
          returned, where, retry_count, current_token, transformed, body, has_thinking,
          first_thinking_chunk, line_count, content_chunk, out, last_error, attempts,
          reports, lines_read, client, pending, arrived, buffer, incomplete_line,
          events, handler, hpc, auth_token, call_retry_count, response,
          sent_initial_answer, self_first_thinking_chunk, in_thinking_phase,
          full_content, yielded, result, has_tools, buffered_content,
          message>>

\* what no operation of the pool writes
historyVars == <<attempts, reports, lines_read, client>>
\* the handlers of response_handlers.py
handlerVars == <<handler, hpc, auth_token, call_retry_count, response,
                 sent_initial_answer, self_first_thinking_chunk,
                 in_thinking_phase, full_content, yielded, result,
                 has_tools, buffered_content, message>>
\* the reader of the body's bytes and the handlers
chunkVars == <<pending, arrived, buffer, incomplete_line, events, handlerVars>>
streamVars == <<where, retry_count, current_token, transformed, body, has_thinking,
                first_thinking_chunk, line_count, content_chunk, out, last_error, historyVars,
                chunkVars>>
envVars == <<backup, now, returned, streamVars>>
localVars == <<caller, lines, new_tokens, token_index, granted, ret>>

\* TokenInfo(token=token)
TokenInfo(tok) == [token |-> tok, failure_count |-> 0, is_active |-> TRUE,
                   last_failure_time |-> None, last_used_time |-> None]

\* the references to the objects of the heap
Objs == 1..Len(heap)

Range(s) == { s[i] : i \in 1..Len(s) }

\* the objects some list refers to
Referenced(toks, news) == Range(toks) \cup UNION { Range(news[t]) : t \in Threads }

RECURSIVE Dedupe(_, _)
Dedupe(s, seen) ==
    IF s = <<>> THEN <<>>
    ELSE IF Head(s) \in seen THEN Dedupe(Tail(s), seen)
    ELSE <<Head(s)>> \o Dedupe(Tail(s), seen \cup {Head(s)})

RECURSIVE ConcatAll(_, _)
ConcatAll(news, ts) ==
    IF ts = {} THEN <<>>
    ELSE news[Min(ts)] \o ConcatAll(news, ts \ {Min(ts)})

RECURSIVE MapSeq(_, _)
MapSeq(f, s) == IF s = <<>> THEN <<>> ELSE <<f[Head(s)]>> \o MapSeq(f, Tail(s))

\* Object identities carry no meaning beyond equality: after every step that
\* changes what is referenced, the live objects are renumbered in the order
\* the lists mention them, and unreferenced objects are reclaimed.
Collect(h, toks, news) ==
    LET ord == Dedupe(toks \o ConcatAll(news, Threads), {})
        pos == [o \in Range(ord) |-> CHOOSE i \in 1..Len(ord) : ord[i] = o]
    IN  [heap |-> MapSeq(h, ord),
         tokens |-> MapSeq(pos, toks),
         new_tokens |-> [t \in Threads |-> MapSeq(pos, news[t])]]

\* next((t for t in lst if t.token == tok), None), as a list of length <= 1
FindToken(h, lst, tok) ==
    LET hits == { i \in 1..Len(lst) : h[lst[i]].token = tok }
    IN  IF hits = {} THEN None ELSE Some(lst[Min(hits)])

\* a new object
NewObj(h) == Len(h) + 1

\* AddFileLine that never reuses the existing TokenInfo
AddFileLine_AlwaysFresh(h, toks, nt, line) ==
    LET token == strip(line) IN
    IF token # <<>> /\ ~startswith(token, <<"#">>)
    THEN [heap |-> Append(h, TokenInfo(token)), new |-> Append(nt, NewObj(h))]
    ELSE [heap |-> h, new |-> nt]

\* lines 70-78: one line of tokens.txt
AddFileLine(h, toks, nt, line) ==
    LET token == strip(line) IN
    IF token # <<>> /\ ~startswith(token, <<"#">>)
    THEN LET existing_token == FindToken(h, toks, token) IN
         IF existing_token # None
         THEN [heap |-> h, new |-> Append(nt, existing_token[1])]
         ELSE [heap |-> Append(h, TokenInfo(token)), new |-> Append(nt, NewObj(h))]
    ELSE [heap |-> h, new |-> nt]

\* lines 93-102: one token of BACKUP_TOKEN
AddBackupToken(h, toks, nt, backup_token) ==
    IF FindToken(h, nt, backup_token) = None
    THEN LET old_token == FindToken(h, toks, backup_token) IN
         IF old_token # None
         THEN [heap |-> h, new |-> Append(nt, old_token[1])]
         ELSE [heap |-> Append(h, TokenInfo(backup_token)),
               new |-> Append(nt, NewObj(h))]
    ELSE [heap |-> h, new |-> nt]

\* lines 88-90: the backup tokens the second stage walks through
BackupList(b) == IF b # <<>> THEN BackupTokens(b) ELSE <<>>

RECURSIVE FreshAll(_, _, _)
\* line 115: [TokenInfo(token=token) for token in backup_tokens]
FreshAll(h, nt, bts) ==
    IF bts = <<>> THEN [heap |-> h, new |-> nt]
    ELSE FreshAll(Append(h, TokenInfo(Head(bts))), Append(nt, NewObj(h)), Tail(bts))

\* lines 108-118: with nothing loaded, use BACKUP_TOKEN alone
Fallback(h, nt, b) ==
    IF nt = <<>> /\ b # <<>>
    THEN FreshAll(h, <<>>, BackupTokens(b))
    ELSE [heap |-> h, new |-> nt]

RECURSIVE FoldLines(_, _, _, _)
FoldLines(h, toks, nt, ls) ==
    IF ls = <<>> THEN [heap |-> h, new |-> nt]
    ELSE LET r == AddFileLine(h, toks, nt, Head(ls))
         IN  FoldLines(r.heap, toks, r.new, Tail(ls))

RECURSIVE FoldBackup(_, _, _, _)
FoldBackup(h, toks, nt, bts) ==
    IF bts = <<>> THEN [heap |-> h, new |-> nt]
    ELSE LET r == AddBackupToken(h, toks, nt, Head(bts))
         IN  FoldBackup(r.heap, toks, r.new, Tail(bts))

\* _load_tokens run by one thread alone, as __init__ runs it (line 58):
\* the list it builds, or <<>> when it installs nothing
LoadAlone(h, toks, f, b) ==
    IF f.exists /\ ~f.readable THEN [heap |-> h, new |-> <<>>]
    ELSE LET r1 == FoldLines(h, toks, <<>>, IF f.exists THEN f.lines ELSE <<>>)
             r2 == FoldBackup(r1.heap, toks, r1.new, BackupList(b))
         IN  Fallback(r2.heap, r2.new, b)

\* no handler of response_handlers.py is at work
\* no response has been built
NoMessage ==
    [content |-> <<>>, null |-> FALSE, tool_calls |-> <<>>,
     finish_reason |-> "none"]

NoHandler ==
    /\ handler = "none"
    /\ hpc = "none"
    /\ auth_token = <<>>
    /\ call_retry_count = 0
    /\ response = [records |-> <<>>, raises |-> FALSE]
    /\ sent_initial_answer = FALSE
    /\ self_first_thinking_chunk = TRUE
    /\ in_thinking_phase = FALSE
    /\ full_content = <<>>
    /\ yielded = <<>>
    /\ result = "none"
    /\ has_tools = FALSE
    /\ buffered_content = <<>>
    /\ message = NoMessage

\* no body is being received
NoChunks ==
    /\ pending = <<>>
    /\ arrived = <<>>
    /\ buffer = <<>>
    /\ incomplete_line = <<>>
    /\ events = <<>>

\* no request is in stream_response
\* zai_transformer.py lines 173-180 and 435-457: the config of a request
\* that transform_request_in has built with this credential: it is the
\* token parameter of the url and it is in the Authorization header
Config(token) == [url_token |-> token, Authorization |-> token]

NoRequest ==
    /\ NoChunks
    /\ NoHandler
    /\ where = "none"
    /\ retry_count = 0
    /\ current_token = <<>>
    /\ transformed = Config(<<>>)
    /\ body = [records |-> <<>>, raises |-> FALSE]
    /\ has_thinking = FALSE
    /\ first_thinking_chunk = TRUE
    /\ line_count = 0
    /\ content_chunk = FALSE
    /\ out = <<>>
    /\ last_error = "None"
    /\ attempts = <<>>
    /\ reports = 0
    /\ lines_read = <<>>
    /\ client = "here"

\* the state __init__ leaves (lines 40-58) at StartTime, and the time that
\* has passed since when the pool is first used
Init ==
    /\ backup \in BackupChoices
    /\ now \in { StartTime + k * TickSeconds : k \in 0..MaxTicks }
    /\ \E file \in FileChoices :
         LET r == LoadAlone(<<>>, <<>>, file, backup) IN
         /\ heap = r.heap
         /\ tokens = r.new
         /\ last_reload_time = IF r.new # <<>> THEN StartTime ELSE 0
    /\ current_index = 0
    /\ lock = 0
    /\ pc = [t \in Threads |-> "idle"]
    /\ caller = [t \in Threads |-> "none"]
    /\ lines = [t \in Threads |-> <<>>]
    /\ new_tokens = [t \in Threads |-> <<>>]
    /\ token_index = [t \in Threads |-> None]
    /\ granted = [t \in Threads |-> FALSE]
    /\ ret = [t \in Threads |-> NoCall]
    /\ returned = <<>>
    /\ NoRequest

\* ------------------------------------------------------------ _load_tokens
\* where a thread goes when _load_tokens returns
AfterLoad(t) == IF caller[t] = "get" THEN "select" ELSE "idle"

\* line 139
should_reload == now - last_reload_time > reload_interval

\* lines 257-260: reload_tokens() enters _load_tokens
ReloadTokens(t) ==
    /\ pc[t] = "idle"
    /\ pc' = [pc EXCEPT ![t] = "open"]
    /\ caller' = [caller EXCEPT ![t] = "reload"]
    /\ UNCHANGED <<envVars, heap, tokens, current_index, last_reload_time, lock,
                   lines, new_tokens, token_index, granted, ret>>

\* lines 63-68: new_tokens = [], then the file, whatever it holds by now, is
\* read in one go
LoadOpen(t, file) ==
    /\ pc[t] = "open"
    /\ IF file.exists /\ ~file.readable
       THEN \* open() raises; line 134 swallows it
            /\ pc' = [pc EXCEPT ![t] = AfterLoad(t)]
            /\ caller' = [caller EXCEPT ![t] = "none"]
            /\ lines' = lines
       ELSE /\ pc' = [pc EXCEPT ![t] = "lines"]
            /\ lines' = [lines EXCEPT ![t] = IF file.exists THEN file.lines ELSE <<>>]
            /\ caller' = caller
    /\ UNCHANGED <<envVars, heap, tokens, current_index, last_reload_time, lock,
                   new_tokens, token_index, granted, ret>>

\* lines 70-78, one line per step; after the last one, lines 86-90
LoadLine(t) ==
    /\ pc[t] = "lines"
    /\ IF lines[t] = <<>>
       THEN /\ pc' = [pc EXCEPT ![t] = "backup"]
            /\ lines' = [lines EXCEPT ![t] = BackupList(backup)]
            /\ UNCHANGED <<heap, tokens, new_tokens>>
       ELSE LET r == AddFileLine(heap, tokens, new_tokens[t], Head(lines[t]))
                c == Collect(r.heap, tokens, [new_tokens EXCEPT ![t] = r.new])
            IN  /\ heap' = c.heap
                /\ new_tokens' = c.new_tokens
                /\ tokens' = c.tokens
                /\ lines' = [lines EXCEPT ![t] = Tail(lines[t])]
                /\ pc' = pc
    /\ UNCHANGED <<envVars, current_index, last_reload_time, lock,
                   caller, token_index, granted, ret>>

\* lines 93-102, one backup token per step
LoadBackup(t) ==
    /\ pc[t] = "backup"
    /\ IF lines[t] = <<>>
       THEN /\ pc' = [pc EXCEPT ![t] = "decide"]
            /\ UNCHANGED <<heap, tokens, new_tokens, lines>>
       ELSE LET r == AddBackupToken(heap, tokens, new_tokens[t], Head(lines[t]))
                c == Collect(r.heap, tokens, [new_tokens EXCEPT ![t] = r.new])
            IN  /\ heap' = c.heap
                /\ new_tokens' = c.new_tokens
                /\ tokens' = c.tokens
                /\ lines' = [lines EXCEPT ![t] = Tail(lines[t])]
                /\ pc' = pc
    /\ UNCHANGED <<envVars, current_index, last_reload_time, lock,
                   caller, token_index, granted, ret>>

\* LoadDecide that installs the list even when it is empty
LoadDecide_InstallsEmpty(t) ==
    /\ pc[t] = "decide"
    /\ LET r == Fallback(heap, new_tokens[t], backup)
           c == Collect(r.heap, tokens, [new_tokens EXCEPT ![t] = r.new])
       IN  /\ heap' = c.heap
           /\ new_tokens' = c.new_tokens
           /\ tokens' = c.tokens
    /\ pc' = [pc EXCEPT ![t] = "install"]
    /\ UNCHANGED <<envVars, current_index, last_reload_time, lock,
                   caller, lines, token_index, granted, ret>>

\* lines 108-120 and 131-132: the fallback, then install or give up
LoadDecide(t) ==
    /\ pc[t] = "decide"
    /\ LET r == Fallback(heap, new_tokens[t], backup)
           c == Collect(r.heap, tokens, [new_tokens EXCEPT ![t] = r.new])
       IN  /\ heap' = c.heap
           /\ new_tokens' = c.new_tokens
           /\ tokens' = c.tokens
           /\ IF r.new # <<>>
              THEN /\ pc' = [pc EXCEPT ![t] = "install"]
                   /\ caller' = caller
              ELSE /\ pc' = [pc EXCEPT ![t] = AfterLoad(t)]
                   /\ caller' = [caller EXCEPT ![t] = "none"]
    /\ UNCHANGED <<envVars, current_index, last_reload_time, lock,
                   lines, token_index, granted, ret>>

\* InstallAcquire without the lock
InstallAcquire_NoLock(t) ==
    /\ pc[t] = "install"
    /\ lock' = lock
    /\ LET c == Collect(heap, new_tokens[t], new_tokens)
       IN  /\ heap' = c.heap
           /\ tokens' = c.tokens
           /\ new_tokens' = c.new_tokens
    /\ pc' = [pc EXCEPT ![t] = "installed"]
    /\ UNCHANGED <<envVars, current_index, last_reload_time, caller, lines,
                   token_index, granted, ret>>

\* lines 121-122: take the lock, replace the list
InstallAcquire(t) ==
    /\ pc[t] = "install"
    /\ lock = 0
    /\ lock' = t
    /\ LET c == Collect(heap, new_tokens[t], new_tokens)
       IN  /\ heap' = c.heap
           /\ tokens' = c.tokens
           /\ new_tokens' = c.new_tokens
    /\ pc' = [pc EXCEPT ![t] = "installed"]
    /\ UNCHANGED <<envVars, current_index, last_reload_time, caller, lines,
                   token_index, granted, ret>>

\* InstallRelease that leaves the cursor where it is
InstallRelease_KeepCursor(t) ==
    /\ pc[t] = "installed"
    /\ current_index' = current_index
    /\ last_reload_time' = now
    /\ lock' = 0
    /\ LET c == Collect(heap, tokens, [new_tokens EXCEPT ![t] = <<>>])
       IN  /\ heap' = c.heap
           /\ tokens' = c.tokens
           /\ new_tokens' = c.new_tokens
    /\ pc' = [pc EXCEPT ![t] = AfterLoad(t)]
    /\ caller' = [caller EXCEPT ![t] = "none"]
    /\ UNCHANGED <<envVars, lines, token_index, granted, ret>>

\* lines 123-126: fix the cursor, stamp the reload, release
InstallRelease(t) ==
    /\ pc[t] = "installed"
    /\ current_index' = IF current_index >= Len(tokens) THEN 0 ELSE current_index
    /\ last_reload_time' = now
    /\ lock' = 0
    /\ LET c == Collect(heap, tokens, [new_tokens EXCEPT ![t] = <<>>])
       IN  /\ heap' = c.heap
           /\ tokens' = c.tokens
           /\ new_tokens' = c.new_tokens
    /\ pc' = [pc EXCEPT ![t] = AfterLoad(t)]
    /\ caller' = [caller EXCEPT ![t] = "none"]
    /\ UNCHANGED <<envVars, lines, token_index, granted, ret>>

\* ---------------------------------------------------------- get_next_token
\* lines 143-145: reload first when the interval has passed
GetNextToken(t) ==
    /\ pc[t] = "idle"
    /\ IF should_reload
       THEN /\ pc' = [pc EXCEPT ![t] = "open"]
            /\ caller' = [caller EXCEPT ![t] = "get"]
       ELSE /\ pc' = [pc EXCEPT ![t] = "select"]
            /\ caller' = caller
    /\ UNCHANGED <<envVars, heap, tokens, current_index, last_reload_time, lock,
                   lines, new_tokens, token_index, granted, ret>>

\* line 153: the (0-based) indices of the active entries
ActiveTokens(h, toks) == { i \in 0..(Len(toks) - 1) : h[toks[i + 1]].is_active }

\* Amnesty that reactivates and keeps the counters
Amnesty_KeepCounts(h, toks) ==
    [o \in 1..Len(h) |-> IF o \in Range(toks)
                         THEN [h[o] EXCEPT !.is_active = TRUE]
                         ELSE h[o]]

\* lines 158-160: reactivate every entry of the list
Amnesty(h, toks) ==
    [o \in 1..Len(h) |-> IF o \in Range(toks)
                         THEN [h[o] EXCEPT !.is_active = TRUE, !.failure_count = 0]
                         ELSE h[o]]

\* ScanFrom that takes the entry at the cursor, active or not
ScanFrom_IgnoreActive(cur, n, active) == Some(cur % n)

\* ScanFrom that stops one entry short of the full circle
ScanFrom_ShortScan(cur, n, active) ==
    LET offs == { i \in 0..(n - 2) : ((cur + i) % n) \in active }
    IN  IF offs = {} THEN None ELSE Some((cur + Min(offs)) % n)

\* lines 169-174: the first active index at or after the cursor, cyclically
ScanFrom(cur, n, active) ==
    LET offs == { i \in 0..(n - 1) : ((cur + i) % n) \in active }
    IN  IF offs = {} THEN None ELSE Some((cur + Min(offs)) % n)

\* lines 147-174: take the lock; with an empty list return None at once,
\* else grant the amnesty if nothing is active and pick the entry
SelectAcquire(t) ==
    /\ pc[t] = "select"
    /\ lock = 0
    /\ IF tokens = <<>>
       THEN /\ ret' = [ret EXCEPT ![t] = NoToken]
            /\ pc' = [pc EXCEPT ![t] = "return"]
            /\ UNCHANGED <<heap, lock, token_index, granted>>
       ELSE LET amnesty == ActiveTokens(heap, tokens) = {}
                h == IF amnesty THEN Amnesty(heap, tokens) ELSE heap
                active_tokens == IF amnesty THEN 0..(Len(tokens) - 1)
                                 ELSE ActiveTokens(heap, tokens)
            IN  /\ heap' = h
                /\ granted' = [granted EXCEPT ![t] = amnesty]
                /\ token_index' = [token_index EXCEPT ![t] =
                                     ScanFrom(current_index, Len(tokens), active_tokens)]
                /\ lock' = t
                /\ pc' = [pc EXCEPT ![t] = "selected"]
                /\ ret' = ret
    /\ UNCHANGED <<envVars, tokens, current_index, last_reload_time,
                   caller, lines, new_tokens>>

\* lines 176-186: advance the cursor, stamp the entry, release and return
SelectRelease(t) ==
    /\ pc[t] = "selected"
    /\ IF token_index[t] # None
       THEN LET idx == token_index[t][1]
                o == tokens[idx + 1]
            IN  /\ current_index' = (idx + 1) % Len(tokens)
                /\ heap' = [heap EXCEPT ![o].last_used_time = Some(now)]
                /\ ret' = [ret EXCEPT ![t] = heap[o].token]
       ELSE /\ ret' = [ret EXCEPT ![t] = NoToken]
            /\ UNCHANGED <<current_index, heap>>
    /\ token_index' = [token_index EXCEPT ![t] = None]
    /\ lock' = 0
    /\ pc' = [pc EXCEPT ![t] = "return"]
    /\ UNCHANGED <<envVars, tokens, last_reload_time, caller, lines, new_tokens,
                   granted>>

\* the caller takes the result
Return(t) ==
    /\ pc[t] = "return"
    /\ pc' = [pc EXCEPT ![t] = "idle"]
    /\ ret' = [ret EXCEPT ![t] = NoCall]
    /\ granted' = [granted EXCEPT ![t] = FALSE]
    /\ UNCHANGED <<envVars, heap, tokens, current_index, last_reload_time, lock,
                   caller, lines, new_tokens, token_index>>

\* ------------------------------------------------------- the health reports
\* lines 191-192: the first entry of the list with this value
FirstEntry(h, toks, tok) == FindToken(h, toks, tok)

\* FailedInfo with the threshold test off by one (> for >=)
FailedInfo_OffByOne(info, t_now) ==
    LET n == info.failure_count + 1 IN
    [info EXCEPT !.failure_count = n,
                 !.last_failure_time = Some(t_now),
                 !.is_active = IF n > max_failures THEN FALSE ELSE info.is_active]

\* FailedInfo that deactivates at the first failure
FailedInfo_DeactivateAtOnce(info, t_now) ==
    [info EXCEPT !.failure_count = info.failure_count + 1,
                 !.last_failure_time = Some(t_now),
                 !.is_active = FALSE]

\* lines 193-197
FailedInfo(info, t_now) ==
    LET n == info.failure_count + 1 IN
    [info EXCEPT !.failure_count = n,
                 !.last_failure_time = Some(t_now),
                 !.is_active = IF n >= max_failures THEN FALSE ELSE info.is_active]

RECURSIVE FailEvery(_, _, _, _)
FailEvery(h, toks, token, t_now) ==
    IF toks = <<>> THEN h
    ELSE FailEvery(IF h[Head(toks)].token = token
                   THEN [h EXCEPT ![Head(toks)] = FailedInfo(h[Head(toks)], t_now)]
                   ELSE h,
                   Tail(toks), token, t_now)

\* MarkFailedHeap with the break of line 201 missing
MarkFailedHeap_NoBreak(h, toks, token, t_now) == FailEvery(h, toks, token, t_now)

\* MarkFailedHeap that charges the first entry of the list with a failure
\* of a value the list does not hold
MarkFailedHeap_ChargesFirst(h, toks, token, t_now) ==
    LET e == FirstEntry(h, toks, token) IN
    IF e # None THEN [h EXCEPT ![e[1]] = FailedInfo(h[e[1]], t_now)]
    ELSE IF toks # <<>>
    THEN [h EXCEPT ![toks[1]] = FailedInfo(h[toks[1]], t_now)]
    ELSE h

\* lines 191-201: the loop stops at the first entry with this value
MarkFailedHeap(h, toks, token, t_now) ==
    LET e == FirstEntry(h, toks, token) IN
    IF e # None THEN [h EXCEPT ![e[1]] = FailedInfo(h[e[1]], t_now)] ELSE h

\* no entry with this value, or its counter is below the cap of the model
BelowCap(h, toks, token) ==
    LET e == FirstEntry(h, toks, token) IN
    e # None => h[e[1]].failure_count < MaxFailureCount

\* lines 188-201
MarkTokenFailed(t, token) ==
    /\ pc[t] = "idle"
    /\ lock = 0
    /\ BelowCap(heap, tokens, token)
    /\ heap' = MarkFailedHeap(heap, tokens, token, now)
    /\ UNCHANGED <<envVars, tokens, current_index, last_reload_time, lock, pc,
                   localVars>>

\* SuccessInfo that takes one failure back instead of all
SuccessInfo_Decrement(info) ==
    [info EXCEPT !.failure_count = IF info.failure_count > 0
                                   THEN info.failure_count - 1 ELSE 0,
                 !.is_active = TRUE]

\* lines 210-211
SuccessInfo(info) == [info EXCEPT !.failure_count = 0, !.is_active = TRUE]

\* lines 206-212: the loop stops at the first entry with this value
MarkSuccessHeap(h, toks, token) ==
    LET e == FirstEntry(h, toks, token) IN
    IF e # None THEN [h EXCEPT ![e[1]] = SuccessInfo(h[e[1]])] ELSE h

\* lines 203-212
MarkTokenSuccess(t, token) ==
    /\ pc[t] = "idle"
    /\ lock = 0
    /\ heap' = MarkSuccessHeap(heap, tokens, token)
    /\ UNCHANGED <<envVars, tokens, current_index, last_reload_time, lock, pc,
                   localVars>>

\* lines 252-254
ResetInfo(info) == [info EXCEPT !.is_active = TRUE, !.failure_count = 0,
                                !.last_failure_time = None]

\* lines 248-255
ResetAllTokens(t) ==
    /\ pc[t] = "idle"
    /\ lock = 0
    /\ heap' = [o \in Objs |-> IF o \in Range(tokens) THEN ResetInfo(heap[o])
                               ELSE heap[o]]
    /\ UNCHANGED <<envVars, tokens, current_index, last_reload_time, lock, pc,
                   localVars>>

\* the pool used by one thread
Next ==
    \/ ReloadTokens(MainThread)
    \/ \E file \in FileChoices : LoadOpen(MainThread, file)
    \/ LoadLine(MainThread)
    \/ LoadBackup(MainThread)
    \/ LoadDecide(MainThread)
    \/ InstallAcquire(MainThread)
    \/ InstallRelease(MainThread)
    \/ GetNextToken(MainThread)
    \/ SelectAcquire(MainThread)
    \/ SelectRelease(MainThread)
    \/ Return(MainThread)
    \/ \E token \in ReportTokens : MarkTokenFailed(MainThread, token)
    \/ \E token \in ReportTokens : MarkTokenSuccess(MainThread, token)
    \/ ResetAllTokens(MainThread)

Spec == Init /\ [][Next]_vars

\* the pool used by all threads at once, started from a file of one line
ConcFileChoices == { FileOf(<<Line(<<"a">>), Line(<<"b">>)>>),
                     FileOf(<<Line(<<"b">>)>>) }
ConcReportTokens == { <<"a">> }

InitConc == Init /\ backup = <<>> /\ now = StartTime /\ Len(tokens) = 1

NextConc ==
    \/ \E t \in Threads : ReloadTokens(t)
    \/ \E t \in Threads, file \in ConcFileChoices : LoadOpen(t, file)
    \/ \E t \in Threads : LoadLine(t)
    \/ \E t \in Threads : LoadBackup(t)
    \/ \E t \in Threads : LoadDecide(t)
    \/ \E t \in Threads : InstallAcquire(t)
    \/ \E t \in Threads : InstallRelease(t)
    \/ \E t \in Threads : GetNextToken(t)
    \/ \E t \in Threads : SelectAcquire(t)
    \/ \E t \in Threads : SelectRelease(t)
    \/ \E t \in Threads : Return(t)
    \/ \E t \in Threads, token \in ConcReportTokens : MarkTokenFailed(t, token)
    \/ \E t \in Threads, token \in ConcReportTokens : MarkTokenSuccess(t, token)
    \/ \E t \in Threads : ResetAllTokens(t)

SpecConc == InitConc /\ [][NextConc]_vars

\* ------------------------------------------------ one caller, calls on record
\* what tokens.txt holds when the pool of the recorded runs is built
RotationFiles ==
    { FileOf(<<Line(<<"a">>)>>),
      FileOf(<<Line(<<"a">>), Line(<<"b">>)>>),
      FileOf(<<Line(<<"a">>), Line(<<"b">>), Line(<<"c">>)>>),
      FileOf(<<Line(<<"b">>), Line(<<"a">>), Line(<<"b">>)>>),
      FileOf(<<Line(<<"a">>), Line(<<"a">>), Line(<<"b">>)>>) }

RotationReports == { <<"a">>, <<"b">>, <<"c">> }

\* the pool right after __init__ (lines 40-58), not empty, with no reload due
InitRotation ==
    /\ backup = <<>>
    /\ now = StartTime
    /\ \E file \in RotationFiles :
         LET r == LoadAlone(<<>>, <<>>, file, backup) IN
         /\ heap = r.heap
         /\ tokens = r.new
    /\ last_reload_time = StartTime
    /\ current_index = 0
    /\ lock = 0
    /\ pc = [t \in Threads |-> "idle"]
    /\ caller = [t \in Threads |-> "none"]
    /\ lines = [t \in Threads |-> <<>>]
    /\ new_tokens = [t \in Threads |-> <<>>]
    /\ token_index = [t \in Threads |-> None]
    /\ granted = [t \in Threads |-> FALSE]
    /\ ret = [t \in Threads |-> NoCall]
    /\ returned = <<>>
    /\ NoRequest

\* failure reports come in before the first call that is put on record
SetupFailure(t, token) ==
    /\ returned = <<>>
    /\ MarkTokenFailed(t, token)

\* a call of get_next_token that will be put on record
RecordedCall(t) ==
    /\ Len(returned) < MaxRecorded
    /\ GetNextToken(t)

\* the caller takes the result, and the result goes on record
RecordedReturn(t) ==
    /\ pc[t] = "return"
    /\ pc' = [pc EXCEPT ![t] = "idle"]
    /\ returned' = Append(returned, ret[t])
    /\ ret' = [ret EXCEPT ![t] = NoCall]
    /\ granted' = [granted EXCEPT ![t] = FALSE]
    /\ UNCHANGED <<backup, now, heap, tokens, current_index, last_reload_time,
                   lock, caller, lines, new_tokens, token_index, streamVars>>

NextRotation ==
    \/ \E token \in RotationReports : SetupFailure(MainThread, token)
    \/ RecordedCall(MainThread)
    \/ SelectAcquire(MainThread)
    \/ SelectRelease(MainThread)
    \/ RecordedReturn(MainThread)

SpecRotation == InitRotation /\ [][NextRotation]_vars


\* ===================================================== claims on the pool
PoolEntries == 1..Len(tokens)

\* the values a list of references holds
Values(h, lst) == { h[lst[i]].token : i \in 1..Len(lst) }

\* failure_count and is_active of the entry reports on value v reach
HealthOf(h, lst, v) ==
    LET e == FirstEntry(h, lst, v) IN <<h[e[1]].failure_count, h[e[1]].is_active>>

\* thread t picks its entry in this step (lines 147-174)
PickStep(t) == pc[t] = "select" /\ pc'[t] = "selected" /\ token_index'[t] # None

\* the entry picked in a PickStep
Picked(t) == tokens[token_index'[t][1] + 1]

\* C1: in every reachable state, under every interleaving of the pool's
\* operations, an entry whose failure_count is >= max_failures is inactive.
C1_ThresholdMeansInactive ==
    \A o \in Referenced(tokens, new_tokens) :
        heap[o].failure_count >= max_failures => ~heap[o].is_active

C1_Witness ==
    \E i \in PoolEntries :
        heap[tokens[i]].failure_count >= max_failures /\ ~heap[tokens[i]].is_active

C3_AmnestyWhenAllInactive ==
    [][\A t \in Threads :
         /\ ( /\ pc[t] = "select"
              /\ pc'[t] # "select"
              /\ tokens # <<>>
              /\ ActiveTokens(heap, tokens) = {} )
            => /\ pc'[t] = "selected"
               /\ granted'[t]
               /\ token_index'[t] # None
               /\ \A i \in 1..Len(tokens') :
                      /\ heap'[tokens'[i]].is_active
                      /\ heap'[tokens'[i]].failure_count = 0
         /\ (pc[t] = "selected" /\ granted[t] /\ pc'[t] = "return")
            => ret'[t] \in Values(heap, tokens)]_vars

C3_Witness ==
    \E t \in Threads : pc[t] = "return" /\ granted[t] /\ ret[t] # NoToken

\* the number of active entries of the list
ActiveCount == Cardinality(ActiveTokens(heap, tokens))

\* any N calls in a row on record returned N different values, and the call
\* N calls later returned the same value again
RotatesOver(N) ==
    /\ \A i, j \in 1..Len(returned) :
         (i < j /\ j - i < N) => returned[i] # returned[j]
    /\ \A i \in 1..Len(returned) :
         i + N <= Len(returned) => returned[i + N] = returned[i]

\* C4: with N active entries, no failure report, no reload and one caller,
\* N calls of get_next_token in a row return N distinct credentials, and
\* every later block of N calls returns them in the same cyclic order.
C4_RotationDistinctAndCyclic ==
    (returned # <<>> /\ pc[MainThread] = "idle") => RotatesOver(ActiveCount)

\* the entries of the list hold pairwise different values
DistinctValues ==
    \A i, j \in PoolEntries : heap[tokens[i]].token = heap[tokens[j]].token => i = j

\* the rotation of lines 163-186 on a list without a repeated value: the
\* calls cycle through the active entries in list order
RotationOnDistinctValues ==
    (returned # <<>> /\ pc[MainThread] = "idle" /\ DistinctValues)
    => RotatesOver(ActiveCount)

\* two full rounds over three active entries are on record
RotationOnDistinctValues_Witness ==
    /\ DistinctValues
    /\ ActiveCount = 3
    /\ Len(returned) = 6

C6_NoneIffEmpty ==
    \A t \in Threads : pc[t] = "return" => (ret[t] = NoToken <=> tokens = <<>>)

C6_Witness ==
    \E t \in Threads : pc[t] = "return" /\ ret[t] = NoToken /\ tokens = <<>>

\* C7: mark_token_failed on a pooled credential adds exactly one to its
\* failure_count, leaves it inactive exactly when the new count has reached
\* max_failures, and changes no other entry, not the list and not the cursor.
C7_FailedEffect ==
    [][\A t \in Threads, token \in ReportTokens :
         (MarkTokenFailed(t, token) /\ FirstEntry(heap, tokens, token) # None)
         => LET o == FirstEntry(heap, tokens, token)[1] IN
            /\ heap'[o].failure_count = heap[o].failure_count + 1
            /\ ~heap'[o].is_active <=> heap'[o].failure_count >= max_failures
            /\ \A p \in Objs \ {o} : heap'[p] = heap[p]
            /\ tokens' = tokens
            /\ current_index' = current_index]_vars

C7_Witness ==
    \E i \in PoolEntries :
        /\ heap[tokens[i]].failure_count \in 1..(max_failures - 1)
        /\ heap[tokens[i]].is_active
        /\ heap[tokens[i]].last_failure_time = Some(now)

\* C8: mark_token_success on a pooled credential leaves its failure_count 0
\* and it active, and a second call right after changes nothing.
C8_SuccessEffect ==
    [][\A t \in Threads, token \in ReportTokens :
         (MarkTokenSuccess(t, token) /\ FirstEntry(heap, tokens, token) # None)
         => LET o == FirstEntry(heap, tokens, token)[1] IN
            /\ heap'[o].failure_count = 0
            /\ heap'[o].is_active
            /\ tokens' = tokens
            /\ current_index' = current_index
            /\ MarkSuccessHeap(heap', tokens', token) = heap']_vars

\* the only entry has failed, was never picked, and is healthy again
C8_Witness ==
    /\ Len(tokens) = 1
    /\ heap[tokens[1]].failure_count = 0
    /\ heap[tokens[1]].is_active
    /\ heap[tokens[1]].last_failure_time # None
    /\ heap[tokens[1]].last_used_time = None

\* the cursor resolves to an entry of the list
CursorInRange == tokens = <<>> \/ current_index \in 0..(Len(tokens) - 1)

\* C9: a thread is between taking and releasing the lock exactly when it
\* holds it; whenever the lock is free, and so whenever a call takes it, the
\* list and the cursor belong together; and the entry a call has picked is
\* an active entry of the list as it is when the call returns it.
C9_PoolSeenWhole ==
    /\ \A t \in Threads : pc[t] \in {"selected", "installed"} <=> lock = t
    /\ lock = 0 => CursorInRange
    /\ \A t \in Threads :
         (pc[t] = "selected" /\ token_index[t] # None)
         => /\ token_index[t][1] < Len(tokens)
            /\ heap[tokens[token_index[t][1] + 1]].is_active

\* a reload holds the lock with the list replaced and the cursor not yet
\* fixed, while the other thread waits to pick
C9_Witness ==
    \E t, u \in Threads :
        /\ pc[t] = "installed"
        /\ pc[u] = "select"
        /\ ~CursorInRange

\* ============================================ Part II: stream_response
\* One request in the generator of src/app/core/openai.py lines 66-616. The
\* request carries no tools and no MCP servers, so tool_handler is None
\* (lines 210-218). The body of a 200 response is taken record by record, a
\* record being one line that lines 274-521 go through.

\* ---------------------------------------------------- the upstream's inputs
\* the status codes the upstream answers with
Statuses == {200, 400, 401, 403, 404, 429, 500, 503}

\* the 5xx statuses the upstream answers with
ServerErrors == { ToString(st) : st \in { x \in Statuses : x >= 500 } }

\* a line that is skipped: blank, without the data: prefix, with an empty
\* payload, not JSON, or JSON of another type (lines 276-292, 518-521)
SkippedLine == [kind |-> "skip"]
\* the line data: [DONE]
DoneLine == [kind |-> "DONE"]
\* a chat:completion event; edit is "none", "close" (edit_content holds
\* "</details>\n" and nothing after it) or "close_text" (text follows it)
Event(phase, delta, edit, usage) ==
    [kind |-> "event", phase |-> phase, delta_content |-> delta,
     edit_content |-> edit, usage |-> usage]

\* a response body: its records, and whether reading raises after the last
\* of them instead of reaching the end of the body
Body(records, raises) == [records |-> records, raises |-> raises]

BodyChoices ==
    { Body(<<>>, FALSE),
      Body(<<Event("answer", TRUE, "none", FALSE),
             Event("done", FALSE, "none", TRUE)>>, FALSE),
      Body(<<Event("answer", TRUE, "none", TRUE), DoneLine>>, FALSE),
      Body(<<Event("answer", TRUE, "none", FALSE),
             Event("answer", TRUE, "none", FALSE),
             Event("done", FALSE, "none", TRUE)>>, FALSE),
      Body(<<Event("thinking", TRUE, "none", FALSE),
             Event("answer", FALSE, "close_text", FALSE),
             Event("answer", TRUE, "none", TRUE)>>, FALSE),
      Body(<<Event("thinking", TRUE, "none", FALSE)>>, FALSE),
      Body(<<Event("thinking", TRUE, "none", FALSE),
             Event("answer", TRUE, "none", FALSE),
             Event("answer", FALSE, "close", FALSE)>>, FALSE),
      Body(<<Event("thinking", TRUE, "none", FALSE),
             Event("answer", FALSE, "close", TRUE)>>, FALSE),
      Body(<<Event("thinking", TRUE, "none", FALSE),
             Event("thinking", TRUE, "none", FALSE),
             Event("done", FALSE, "none", TRUE)>>, FALSE),
      Body(<<SkippedLine, DoneLine>>, FALSE),
      Body(<<SkippedLine, Event("answer", TRUE, "none", FALSE), DoneLine,
             Event("answer", TRUE, "none", FALSE)>>, FALSE),
      Body(<<Event("answer", TRUE, "none", FALSE)>>, TRUE) }

\* the guest credential of anonymous mode
GuestToken == <<"g">>

\* what the pool of the request can be loaded from
StreamFiles == { FileMissing, FileOf(<<Line(<<"a">>), Line(<<"b">>)>>) }

\* ----------------------------------------------------- the credential calls
\* token_manager.get_next_token() with no reload due, in one piece
GetNextAtomic(h, toks, cur, t_now) ==
    IF toks = <<>> THEN [heap |-> h, current_index |-> cur, token |-> <<>>]
    ELSE LET amnesty == ActiveTokens(h, toks) = {}
             h1 == IF amnesty THEN Amnesty(h, toks) ELSE h
             idx == ScanFrom(cur, Len(toks), ActiveTokens(h1, toks))[1]
             o == toks[idx + 1]
         IN  [heap |-> [h1 EXCEPT ![o].last_used_time = Some(t_now)],
              current_index |-> (idx + 1) % Len(toks),
              token |-> h1[o].token]

\* transformer.get_token() (zai_transformer.py lines 263-287): the guest
\* credential when anonymous mode is on and the guest endpoint answers, else
\* the next credential of the pool, else ""
get_token(guest, h, toks, cur, t_now) ==
    IF guest THEN [heap |-> h, current_index |-> cur, token |-> GuestToken]
    ELSE GetNextAtomic(h, toks, cur, t_now)

\* lines 81-82, 133-134, 598-599: if current_token: mark_token_failure(...)
mark_token_failure(h, toks, tok, t_now) ==
    IF tok # <<>> THEN MarkFailedHeap(h, toks, tok, t_now) ELSE h

\* lines 206-207
mark_token_success(h, toks, tok) ==
    IF tok # <<>> THEN MarkSuccessHeap(h, toks, tok) ELSE h

\* ------------------------------------------------------- the 200 stream
\* lines 311-370: an event of the thinking phase
ThinkingPhase(ev, ht, ftc) ==
    [out |-> (IF ~ht THEN <<"role">> ELSE <<>>)
             \o (IF ev.delta_content
                 THEN IF ftc THEN <<"<think>">> ELSE <<"thinking">>
                 ELSE <<>>),
     has_thinking |-> TRUE,
     first_thinking_chunk |-> IF ev.delta_content THEN FALSE ELSE ftc]

\* lines 372-488: an event of the answer phase, ccb telling whether the
\* local content_chunk has been assigned. Line 444 yields content_chunk
\* whether or not line 426 has just assigned it: when nothing follows
\* "</details>\n", it yields the chunk sent last, or raises
\* UnboundLocalError when there is none.
AnswerPhase(ev, ht, ftc, ccb) ==
    [out |-> (IF ~ht THEN <<"role">> ELSE <<>>)
             \o (IF ev.edit_content # "none"
                 THEN (IF ~ftc THEN <<"</think>">> ELSE <<>>)
                      \o (IF ev.edit_content = "close_text" \/ ccb
                          THEN <<"content">> ELSE <<>>)
                 ELSE IF ev.delta_content THEN <<"content">> ELSE <<>>),
     has_thinking |-> TRUE,
     first_thinking_chunk |-> ftc,
     content_chunk |-> (ccb \/ ev.edit_content = "close_text"
                          \/ (ev.edit_content = "none" /\ ev.delta_content)),
     raised |-> (ev.edit_content = "close" /\ ~ccb)]

\* lines 490-516: an event with usage ends in a finish chunk and [DONE]
UsageOutput(ev) == IF ev.usage THEN <<"finish", "DONE">> ELSE <<>>

\* ProcessLine that takes every line for the end of the stream
ProcessLine_EveryLineEnds(r, ht, ftc, ccb) ==
    [out |-> <<"DONE">>, has_thinking |-> ht, first_thinking_chunk |-> ftc,
     content_chunk |-> ccb]

\* lines 276-521: what one line of the body yields and leaves behind; an
\* exception in the handling of an event is caught at line 520 and ends
\* the handling of that line
ProcessLine(r, ht, ftc, ccb) ==
    IF r.kind = "skip"
    THEN [out |-> <<>>, has_thinking |-> ht, first_thinking_chunk |-> ftc,
          content_chunk |-> ccb]
    ELSE IF r.kind = "DONE"
    THEN [out |-> <<"DONE">>, has_thinking |-> ht, first_thinking_chunk |-> ftc,
          content_chunk |-> ccb]
    ELSE IF r.phase = "thinking"
    THEN LET p == ThinkingPhase(r, ht, ftc)
         IN  [out |-> p.out \o UsageOutput(r), has_thinking |-> p.has_thinking,
              first_thinking_chunk |-> p.first_thinking_chunk,
              content_chunk |-> ccb]
    ELSE IF r.phase = "answer"
    THEN LET p == AnswerPhase(r, ht, ftc, ccb)
         IN  [out |-> p.out \o (IF p.raised THEN <<>> ELSE UsageOutput(r)),
              has_thinking |-> p.has_thinking,
              first_thinking_chunk |-> p.first_thinking_chunk,
              content_chunk |-> p.content_chunk]
    ELSE [out |-> UsageOutput(r), has_thinking |-> ht,
          first_thinking_chunk |-> ftc, content_chunk |-> ccb]

\* ------------------------------------------------------- the generator
poolRest == <<backup, now, last_reload_time, lock, pc, localVars, returned, tokens>>
readerVars == <<body, has_thinking, first_thinking_chunk, line_count,
                content_chunk>>

\* one more call of mark_token_failure, if there is a credential to report
Reported(n, tok) == IF tok # <<>> THEN n + 1 ELSE n

\* lines 592-616: an exception e inside the try of the loop, with the pool
\* as h and n failure reports made when it is raised
Raised(h, e, n) ==
    /\ heap' = mark_token_failure(h, tokens, current_token, now)
    /\ reports' = Reported(n, current_token)
    /\ retry_count' = retry_count + 1
    /\ last_error' = e
    /\ IF retry_count + 1 > MAX_RETRIES
       THEN /\ out' = out \o <<"error_stream", "DONE">>
            /\ where' = "done"
       ELSE /\ out' = out
            /\ where' = "top"

\* lines 110-128, 136-151, 156-171: count the attempt; go round again or
\* end with the terminal error of this status
RetryOrFail(error) ==
    /\ retry_count' = retry_count + 1
    /\ last_error' = ToString(error.code)
    /\ IF retry_count + 1 <= MAX_RETRIES
       THEN /\ out' = out
            /\ where' = "top"
       ELSE /\ out' = out \o <<error.type, "DONE">>
            /\ where' = "done"

\* Retryable that retries nothing
Retryable_Never(status, rc) == FALSE

\* Retryable that still retries when no retry is left
Retryable_AtBound(status, rc) == status \in {502, 503, 504} /\ rc <= MAX_RETRIES

\* lines 180-181: the statuses of the last branch that are tried again,
\* while retries are left
Retryable(status, rc) == status \in {502, 503, 504} /\ rc < MAX_RETRIES

\* lines 72-91: the loop test and, on a retry, the failure report on the
\* credential in use and the new credential
\* line 90: the retry writes the new credential into the Authorization
\* header of the request
Rewritten(config, new_token) == [config EXCEPT !.Authorization = new_token]

LoopTop(guest) ==
    /\ where = "top"
    /\ IF retry_count > MAX_RETRIES
       THEN /\ where' = "done"
            /\ UNCHANGED <<heap, current_index, retry_count, current_token, transformed, out,
                           last_error, attempts, reports>>
       ELSE IF retry_count = 0
       THEN /\ where' = "send"
            /\ UNCHANGED <<heap, current_index, retry_count, current_token, transformed, out,
                           last_error, attempts, reports>>
       ELSE LET h == mark_token_failure(heap, tokens, current_token, now)
                n == Reported(reports, current_token)
                g == get_token(guest, h, tokens, current_index, now)
            IN  IF g.token = <<>>
                THEN /\ Raised(g.heap, "no_token", n)
                     /\ attempts' = Append(attempts, "no_token")
                     /\ UNCHANGED <<current_index, current_token, transformed>>
                ELSE /\ heap' = g.heap
                     /\ reports' = n
                     /\ current_index' = g.current_index
                     /\ current_token' = g.token
                     /\ transformed' = Rewritten(transformed, g.token)
                     /\ where' = "send"
                     /\ UNCHANGED <<retry_count, out, last_error, attempts>>
    /\ UNCHANGED <<chunkVars, client, poolRest, readerVars, lines_read>>

\* lines 93-101: the upstream call (or reading an error body) raises
SendRaises ==
    /\ where = "send"
    /\ Raised(heap, "transport", reports)
    /\ attempts' = Append(attempts, "transport")
    /\ UNCHANGED <<chunkVars, client, poolRest, readerVars, current_index, current_token, transformed, lines_read>>

\* lines 103-238: the upstream answers with a status and, for 200, a body
Respond(status, b) ==
    /\ where = "send"
    /\ attempts' = Append(attempts, ToString(status))
    /\ IF status = 400
       THEN /\ RetryOrFail([type |-> "error_upstream", code |-> 400])
            /\ UNCHANGED <<heap, reports, readerVars, lines_read>>
       ELSE IF status = 401
       THEN /\ heap' = mark_token_failure(heap, tokens, current_token, now)
            /\ reports' = Reported(reports, current_token)
            /\ RetryOrFail([type |-> "error_auth", code |-> 401])
            /\ UNCHANGED <<readerVars, lines_read>>
       ELSE IF status = 429
       THEN /\ RetryOrFail([type |-> "error_rate_limit", code |-> 429])
            /\ UNCHANGED <<heap, reports, readerVars, lines_read>>
       ELSE IF status # 200
       THEN /\ IF Retryable(status, retry_count)
               THEN /\ retry_count' = retry_count + 1
                    /\ last_error' = ToString(status)
                    /\ out' = out
                    /\ where' = "top"
               ELSE /\ retry_count' = retry_count
                    /\ last_error' = last_error
                    /\ out' = out \o <<"error_upstream", "DONE">>
                    /\ where' = "done"
            /\ UNCHANGED <<heap, reports, readerVars, lines_read>>
       ELSE /\ heap' = mark_token_success(heap, tokens, current_token)
            /\ has_thinking' = FALSE
            /\ first_thinking_chunk' = TRUE
            /\ line_count' = 0
            /\ content_chunk' = content_chunk
            /\ body' = b
            /\ lines_read' = <<>>
            /\ where' = "body"
            /\ UNCHANGED <<retry_count, out, last_error, reports>>
    /\ UNCHANGED <<chunkVars, client, poolRest, current_index, current_token, transformed>>

\* lines 274-521: the next line of the body
ReadLine ==
    /\ where = "body"
    /\ body.records # <<>>
    /\ LET p == ProcessLine(Head(body.records), has_thinking, first_thinking_chunk,
                            content_chunk)
       IN  /\ out' = out \o p.out
           /\ has_thinking' = p.has_thinking
           /\ first_thinking_chunk' = p.first_thinking_chunk
           /\ content_chunk' = p.content_chunk
    /\ line_count' = line_count + 1
    /\ body' = [body EXCEPT !.records = Tail(body.records)]
    /\ lines_read' = Append(lines_read, Head(body.records))
    /\ UNCHANGED <<chunkVars, client, poolRest, heap, current_index, current_token, transformed, retry_count, where,
                   last_error, attempts, reports>>

\* the body is over: reading raises (line 240), or lines 541-590 send the
\* final [DONE] and go round again if no line was read
BodyEnds ==
    /\ where = "body"
    /\ body.records = <<>>
    /\ IF body.raises
       THEN /\ Raised(heap, "read", reports)
            /\ attempts' = [attempts EXCEPT ![Len(attempts)] = "read"]
       ELSE /\ out' = out \o <<"DONE">>
            /\ IF line_count = 0 /\ retry_count < MAX_RETRIES
               THEN /\ retry_count' = retry_count + 1
                    /\ last_error' = "incomplete"
                    /\ where' = "top"
               ELSE /\ retry_count' = retry_count
                    /\ last_error' = last_error
                    /\ where' = "done"
            /\ UNCHANGED <<heap, attempts, reports>>
    /\ UNCHANGED <<chunkVars, client, poolRest, readerVars, current_index, current_token, transformed, lines_read>>

\* the pool as __init__ leaves it and a request that transform_request_in
\* has given its credential (zai_transformer.py lines 304-311), at the place
\* w of the loop of line 72 with the attempts a behind it
Entered(w, a) ==
    /\ backup = <<>>
    /\ now = StartTime
    /\ \E file \in StreamFiles, guest \in BOOLEAN :
         LET r == LoadAlone(<<>>, <<>>, file, backup)
             g == get_token(guest, r.heap, r.new, 0, now)
         IN  /\ g.token # <<>>
             /\ tokens = r.new
             /\ heap = g.heap
             /\ current_index = g.current_index
             /\ current_token = g.token
             /\ transformed = Config(g.token)
             /\ last_reload_time = IF r.new # <<>> THEN StartTime ELSE 0
    /\ lock = 0
    /\ pc = [t \in Threads |-> "idle"]
    /\ caller = [t \in Threads |-> "none"]
    /\ lines = [t \in Threads |-> <<>>]
    /\ new_tokens = [t \in Threads |-> <<>>]
    /\ token_index = [t \in Threads |-> None]
    /\ granted = [t \in Threads |-> FALSE]
    /\ ret = [t \in Threads |-> NoCall]
    /\ returned = <<>>
    /\ where = w
    /\ retry_count = 0
    /\ body = Body(<<>>, FALSE)
    /\ has_thinking = FALSE
    /\ first_thinking_chunk = TRUE
    /\ line_count = 0
    /\ content_chunk = FALSE
    /\ out = <<>>
    /\ last_error = "None"
    /\ attempts = a
    /\ reports = 0
    /\ lines_read = <<>>
    /\ client = "here"

\* about to enter the loop of line 72
InitStream == Entered("top", <<>>) /\ NoChunks /\ NoHandler

NextStream ==
    \/ \E guest \in BOOLEAN : LoopTop(guest)
    \/ SendRaises
    \/ \E status \in Statuses, b \in BodyChoices : Respond(status, b)
    \/ ReadLine
    \/ BodyEnds

SpecStream == InitStream /\ [][NextStream]_vars

\* the same, with every upstream call and every read returning or raising
\* in the end, and the generator run on until it returns
FairSpecStream == SpecStream /\ WF_vars(NextStream)

\* an except clause that catches whatever is raised
Caught_All(e) == TRUE

\* line 592: what "except Exception" catches. asyncio.CancelledError and
\* GeneratorExit derive from BaseException and pass it by.
Caught(e) == e \notin {"CancelledError", "GeneratorExit"}

\* the client goes away while the generator waits: in the delay of a retry
\* (line 78), in the upstream call (lines 93-101) or for bytes of the body
\* (line 239). The task is cancelled and CancelledError is raised there.
ClientDisconnects ==
    /\ client = "here"
    /\ client' = "gone"
    /\ \/ where \in {"send", "body"}
       \/ where = "top" /\ 0 < retry_count /\ retry_count <= MAX_RETRIES
    /\ IF Caught("CancelledError")
       THEN /\ Raised(heap, "cancelled", reports)
            /\ UNCHANGED attempts
       ELSE /\ where' = "closed"
            /\ UNCHANGED <<heap, reports, retry_count, last_error, out, attempts>>
    /\ UNCHANGED <<chunkVars, poolRest, readerVars, current_index, current_token, transformed,
                   lines_read>>

NextCancel ==
    \/ NextStream
    \/ ClientDisconnects

\* stream_response of a request whose client may go away
SpecCancel == InitStream /\ [][NextCancel]_vars

\* another request on the same pool is given its credential by
\* transform_request_in (zai_transformer.py lines 304-311): the pool's cursor
\* moves on under this request
OtherRequestDraws ==
    /\ tokens # <<>>
    /\ LET g == get_token(FALSE, heap, tokens, current_index, now)
       IN  /\ heap' = g.heap
           /\ current_index' = g.current_index
    /\ UNCHANGED <<chunkVars, client, poolRest, readerVars, current_token, transformed, retry_count, where, out,
                   last_error, attempts, reports, lines_read>>

NextShared ==
    \/ NextStream
    \/ OtherRequestDraws

\* stream_response of one request while other requests draw from the pool
SpecShared == InitStream /\ [][NextShared]_vars

\* ================================================================ Part III
\* The bytes of one 200 response body, as the loop over
\* response.aiter_bytes() takes them (src/app/core/openai.py lines 232-285
\* and 523-534). A byte is a string: an ASCII byte is its character, "LF" is
\* the newline, and "C3", "A9" are the two bytes of the character "U+00E9".
\* The payload of a data: line stands for a JSON text: "{", "}" and the
\* characters "k" and "U+00E9" of what is between them.

\* line 526: the size above which a buffer that does not decode is dropped
BufferLimit == 1048576

DataPrefix == <<"d", "a", "t", "a", ":">>

\* the bodies the upstream sends
ByteStreams ==
    { DataPrefix \o <<"{", "k", "}", "LF">>,
      DataPrefix \o <<"{", "C3", "A9", "}", "LF", "LF">>,
      DataPrefix \o <<"{", "k", "}", "LF", "LF">>
        \o DataPrefix \o <<"{", "C3", "A9", "}", "LF">> }

\* bytes.decode('utf-8') (line 250): the text, or ok = FALSE where Python
\* raises UnicodeDecodeError
RECURSIVE Utf8Decode(_)
Utf8Decode(b) ==
    IF b = <<>> THEN [ok |-> TRUE, text |-> <<>>]
    ELSE IF b[1] = "C3"
    THEN IF Len(b) >= 2 /\ b[2] = "A9"
         THEN LET r == Utf8Decode(SubSeq(b, 3, Len(b)))
              IN  [ok |-> r.ok, text |-> <<"U+00E9">> \o r.text]
         ELSE [ok |-> FALSE, text |-> <<>>]
    ELSE IF b[1] = "A9" THEN [ok |-> FALSE, text |-> <<>>]
    ELSE LET r == Utf8Decode(Tail(b))
         IN  [ok |-> r.ok, text |-> <<b[1]>> \o r.text]

\* str.encode('utf-8') (line 268)
RECURSIVE Utf8Encode(_)
Utf8Encode(t) ==
    IF t = <<>> THEN <<>>
    ELSE (IF t[1] = "U+00E9" THEN <<"C3", "A9">> ELSE <<t[1]>>)
         \o Utf8Encode(Tail(t))

\* text_data.split('\n') (line 253)
RECURSIVE Split(_)
Split(t) ==
    IF \A i \in 1..Len(t) : t[i] # "LF" THEN <<t>>
    ELSE LET i == CHOOSE j \in 1..Len(t) :
                    t[j] = "LF" /\ \A k \in 1..(j - 1) : t[k] # "LF"
         IN  <<SubSeq(t, 1, i - 1)>> \o Split(SubSeq(t, i + 1, Len(t)))

\* text_data.endswith('\n') (line 256)
EndsWithNewline(t) == t # <<>> /\ t[Len(t)] = "LF"

\* json.loads (line 288) on this alphabet: one object, braces at both ends
\* and none between
JsonLoads(payload) ==
    /\ Len(payload) >= 2
    /\ payload[1] = "{"
    /\ payload[Len(payload)] = "}"
    /\ \A i \in 2..(Len(payload) - 1) : payload[i] \notin {"{", "}"}

\* lines 274-292, 518-521: the events of these lines, in order; a line that
\* is blank, lacks the data: prefix, has an empty payload or is not JSON
\* gives none
RECURSIVE EventsOf(_)
EventsOf(ls) ==
    IF ls = <<>> THEN <<>>
    ELSE LET current_line == Head(ls)
             chunk_str == SubSeq(current_line, 6, Len(current_line))
         IN  (IF /\ Len(current_line) >= 5
                 /\ SubSeq(current_line, 1, 5) = DataPrefix
                 /\ JsonLoads(chunk_str)
              THEN <<chunk_str>> ELSE <<>>)
             \o EventsOf(Tail(ls))

\* Feed that drops the bytes it cannot decode
Feed_DropOnFailure(buf, il, evs, chunk) ==
    LET d == Utf8Decode(buf \o chunk)
    IN  [buffer |-> IF d.ok THEN buf \o chunk ELSE <<>>,
         incomplete_line |-> il, events |-> evs]

\* lines 246-271 and 523-528: one fragment through the reader that holds
\* the buffer buf, the incomplete line il and has decoded the events evs
Feed(buf, il, evs, chunk) ==
    LET b == buf \o chunk
        d == Utf8Decode(b)
        ls == Split(d.text)
    IN  IF ~d.ok
        THEN IF Len(b) > BufferLimit
             THEN [buffer |-> <<>>, incomplete_line |-> <<>>, events |-> evs]
             ELSE [buffer |-> b, incomplete_line |-> il, events |-> evs]
        ELSE IF ~EndsWithNewline(d.text)
        THEN [buffer |-> Utf8Encode(ls[Len(ls)]),
              incomplete_line |-> ls[Len(ls)],
              events |-> evs \o EventsOf(SubSeq(ls, 1, Len(ls) - 1))]
        ELSE [buffer |-> <<>>,
              incomplete_line |-> <<>>,
              events |-> evs \o EventsOf(IF il # <<>>
                                         THEN <<il \o ls[1]>> \o Tail(ls)
                                         ELSE ls)]

\* lines 239-271: aiter_bytes gives the next n bytes of the body
ReadChunk(n) ==
    /\ pending # <<>>
    /\ n <= Len(pending)
    /\ LET r == Feed(buffer, incomplete_line, events, SubSeq(pending, 1, n))
       IN  /\ buffer' = r.buffer
           /\ incomplete_line' = r.incomplete_line
           /\ events' = r.events
    /\ arrived' = arrived \o SubSeq(pending, 1, n)
    /\ pending' = SubSeq(pending, n + 1, Len(pending))
    /\ UNCHANGED <<handlerVars, poolRest, heap, current_index, where, retry_count,
                   current_token, transformed, readerVars, out, last_error, historyVars>>

\* a request whose call has been answered 200, before the first fragment
InitReader ==
    /\ Entered("body", <<"200">>)
    /\ pending \in ByteStreams
    /\ arrived = <<>>
    /\ buffer = <<>>
    /\ incomplete_line = <<>>
    /\ events = <<>>
    /\ NoHandler

NextReader == \E n \in 1..Len(pending) : ReadChunk(n)

SpecReader == InitReader /\ [][NextReader]_vars

\* ================================================================= Part IV
\* One request in a handler of src/app/core/response_handlers.py, built
\* with or without tools. The helpers the file imports from app.utils are
\* not in src/: call_upstream_api is the upstream answering or raising,
\* SSEParser.iter_json_data gives the events of the response one by one and
\* may raise, transform_thinking_content keeps a non-empty text non-empty,
\* and the tool helpers are as section 4.4 of the specification has them.
\* A text is the sequence of its parts; the part "tool_json" is the JSON of
\* one complete tool invocation.

\* what call_upstream_api does: return a response of some status, or raise
\* an error whose text names the connection, or another error
Answers == { ToString(st) : st \in Statuses } \cup {"connection", "other"}

\* an event of the response
UpstreamData(phase, delta, edit, done, error) ==
    [phase |-> phase, delta_content |-> delta, edit_content |-> edit,
     done |-> done, error |-> error, tool_json |-> FALSE]

\* an event whose delta_content is the JSON of one complete tool invocation
ToolData(phase, done) ==
    [UpstreamData(phase, TRUE, "none", done, FALSE) EXCEPT !.tool_json = TRUE]

\* the responses of the upstream: their events, and whether the parser
\* raises after the last of them
Responses ==
    { Body(<<>>, FALSE),
      Body(<<>>, TRUE),
      Body(<<UpstreamData("done", FALSE, "none", TRUE, FALSE)>>, FALSE),
      Body(<<UpstreamData("answer", TRUE, "none", FALSE, FALSE),
             UpstreamData("answer", FALSE, "none", TRUE, FALSE)>>, FALSE),
      Body(<<UpstreamData("answer", TRUE, "none", FALSE, FALSE)>>, TRUE),
      Body(<<UpstreamData("answer", TRUE, "none", FALSE, FALSE)>>, FALSE),
      Body(<<UpstreamData("thinking", TRUE, "none", FALSE, FALSE),
             UpstreamData("answer", TRUE, "close_text", FALSE, FALSE),
             UpstreamData("answer", TRUE, "none", FALSE, FALSE),
             UpstreamData("done", FALSE, "none", TRUE, FALSE)>>, FALSE),
      Body(<<UpstreamData("thinking", TRUE, "none", FALSE, FALSE),
             UpstreamData("thinking", TRUE, "none", TRUE, FALSE)>>, FALSE),
      Body(<<UpstreamData("answer", TRUE, "none", FALSE, FALSE),
             UpstreamData("answer", FALSE, "none", FALSE, TRUE)>>, FALSE),
      Body(<<UpstreamData("answer", TRUE, "none", FALSE, FALSE),
             ToolData("answer", FALSE),
             UpstreamData("done", FALSE, "none", TRUE, FALSE)>>, FALSE),
      Body(<<ToolData("answer", FALSE)>>, FALSE),
      Body(<<UpstreamData("thinking", TRUE, "none", FALSE, FALSE),
             UpstreamData("answer", TRUE, "none", FALSE, FALSE),
             UpstreamData("thinking", TRUE, "none", FALSE, FALSE)>>, TRUE),
      Body(<<ToolData("tool_call", FALSE),
             UpstreamData("other", TRUE, "none", FALSE, FALSE),
             UpstreamData("done", FALSE, "none", TRUE, FALSE)>>, FALSE) }

\* lines 333-336: _extract_edit_content gives a text only when something
\* follows "</details>"
ExtractEditContent(edit) == edit = "close_text"

\* lines 264-331: what _process_content yields for an event, and
\* self.first_thinking_chunk after it
ProcessContent(ev, sia, ftc) ==
    LET has_edit == ev.edit_content # "none"
        initial == ~sia /\ has_edit /\ ev.phase = "answer"
        \* content is not empty
        content == IF initial THEN ExtractEditContent(ev.edit_content)
                   ELSE ev.delta_content \/ has_edit
        first == IF initial /\ content THEN <<"content">> ELSE <<>>
    IN  IF ~(ev.delta_content \/ has_edit) \/ ~(ev.delta_content /\ content)
        THEN [out |-> IF ev.delta_content \/ has_edit THEN first ELSE <<>>,
              first_thinking_chunk |-> ftc]
        ELSE IF ev.phase = "thinking"
        THEN [out |-> first \o (IF ftc THEN <<"<think>">> ELSE <<"thinking">>),
              first_thinking_chunk |-> FALSE]
        ELSE IF ~ftc /\ ev.phase = "answer"
        THEN [out |-> first \o <<"</think>", "content">>,
              first_thinking_chunk |-> TRUE]
        ELSE [out |-> first \o <<"content">>, first_thinking_chunk |-> ftc]

\* lines 43-53 and 385-390: the final chunk, its finish_reason "stop", and
\* [DONE]
SendEndChunk == <<"finish", "DONE">>

\* app.utils.tools.extract_tool_invocations: the complete invocations that
\* the text embeds
ExtractToolInvocations(text) == SelectSeq(text, LAMBDA t : t = "tool_json")

\* app.utils.tools.remove_tool_json_content: the text without the spans
\* that are tool JSON
RemoveToolJsonContent(text) == SelectSeq(text, LAMBDA t : t # "tool_json")

\* SSEToolHandler.process_tool_call_phase and process_other_phase: an
\* invocation is emitted once its JSON is complete, and nothing else is
ToolHandler(ev) ==
    IF ev.phase = "tool_call" /\ ev.tool_json THEN <<"invocation">> ELSE <<>>

\* _send_end_chunk that takes the finish reason from has_tools alone
SendEndChunkWith_ToolsMeanToolCalls(force_stop, ht, bc) ==
    IF ht THEN <<"finish_tool_calls", "DONE">> ELSE SendEndChunk

\* lines 338-391: what _send_end_chunk yields. A chunk of tool_calls is
\* "tool_call", the final chunk is "finish" when its finish_reason is
\* "stop" and "finish_tool_calls" when it is "tool_calls"
SendEndChunkWith(force_stop, ht, bc) ==
    LET tool_calls == ExtractToolInvocations(bc)
    IN  IF ht /\ ~force_stop
        THEN IF tool_calls # <<>>
             THEN [i \in 1..Len(tool_calls) |-> "tool_call"]
                    \o <<"finish_tool_calls", "DONE">>
             ELSE (IF RemoveToolJsonContent(bc) # <<>>
                   THEN <<"content">> ELSE <<>>) \o SendEndChunk
        ELSE IF force_stop
        THEN (IF bc # <<>> THEN <<"content">> ELSE <<>>) \o SendEndChunk
        ELSE SendEndChunk

\* lines 395-420 and 275-281: what _process_content_with_tools yields for
\* an event, and self.first_thinking_chunk and self.buffered_content after
\* it
ProcessContentWithTools(ev, sia, ftc, ht, bc) ==
    IF ht /\ ev.phase \in {"tool_call", "other"}
    THEN [out |-> ToolHandler(ev), first_thinking_chunk |-> ftc,
          buffered_content |-> bc]
    ELSE IF ht
    THEN [out |-> <<>>, first_thinking_chunk |-> ftc,
          buffered_content |->
              IF ev.delta_content \/ ev.edit_content # "none"
              THEN Append(bc, IF ev.delta_content /\ ev.tool_json
                              THEN "tool_json" ELSE "text")
              ELSE bc]
    ELSE [out |-> ProcessContent(ev, sia, ftc).out,
          first_thinking_chunk |->
              ProcessContent(ev, sia, ftc).first_thinking_chunk,
          buffered_content |-> bc]

\* lines 509-525: the message and the finish_reason of the response
BuildMessage(ht, final_content) ==
    LET tool_calls == ExtractToolInvocations(final_content)
        trimmed == RemoveToolJsonContent(final_content)
    IN  IF ht /\ tool_calls # <<>>
        THEN [content |-> <<>>, null |-> TRUE, tool_calls |-> tool_calls,
              finish_reason |-> "tool_calls"]
        ELSE [content |-> IF ht /\ trimmed # <<>> THEN trimmed
                          ELSE final_content,
              null |-> FALSE, tool_calls |-> <<>>, finish_reason |-> "stop"]

\* lines 509-546: the response is built and returned
Returns == "JSONResponse"

\* lines 490-500, after the events: handle raises or returns, given
\* whether a done signal was seen and what was collected
Finish(response_completed, content) ==
    IF ~response_completed /\ content = <<>> THEN "HTTPException" ELSE Returns

\* lines 457-483: what one event adds to full_content, and the thinking
\* state after it
Collect_Event(ev, fc, itp, ftc) ==
    IF ~ev.delta_content
    THEN [full_content |-> fc, in_thinking_phase |-> itp,
          first_thinking_chunk |-> ftc]
    ELSE IF ev.phase = "thinking"
    THEN [full_content |-> Append(fc, IF ~itp THEN "<think>" ELSE "thinking"),
          in_thinking_phase |-> TRUE,
          first_thinking_chunk |-> IF ~itp THEN FALSE ELSE ftc]
    ELSE [full_content |->
              (IF itp /\ fc # <<>> /\ ~ftc THEN Append(fc, "</think>") ELSE fc)
              \o <<IF ev.tool_json THEN "tool_json" ELSE "content">>,
          in_thinking_phase |-> FALSE,
          first_thinking_chunk |-> IF itp THEN TRUE ELSE ftc]

\* what the steps of handle() leave alone
handleRest == <<poolRest, where, retry_count, current_token, transformed, readerVars, out,
                last_error, historyVars, pending, arrived, buffer,
                incomplete_line, events>>

\* lines 182-192 and 437-445: how handle() goes on when _call_upstream has
\* raised, or has returned a response of this status
Called(raised, status, r) ==
    IF raised \/ status # "200"
    THEN /\ hpc' = "done"
         /\ response' = response
         /\ IF handler = "stream"
            THEN /\ yielded' = Append(yielded, "error_record")
                 /\ result' = "returned"
            ELSE /\ yielded' = yielded
                 /\ result' = "HTTPException"
    ELSE /\ hpc' = "read"
         /\ response' = r
         /\ yielded' = IF handler = "stream" THEN Append(yielded, "role")
                       ELSE yielded
         /\ result' = result

\* lines 64-155: one pass of the loop of _call_upstream, the upstream
\* answering ans; when the loop is left, handle() goes on (Called)
CallUpstream(ans, r) ==
    /\ hpc = "call"
    /\ IF call_retry_count >= MAX_RETRIES
       THEN /\ Called(TRUE, ans, r)
            /\ UNCHANGED <<heap, current_index, auth_token, call_retry_count>>
       ELSE IF ans = "200"
       THEN /\ heap' = MarkSuccessHeap(heap, tokens, auth_token)
            /\ Called(FALSE, ans, r)
            /\ UNCHANGED <<current_index, auth_token, call_retry_count>>
       ELSE IF ans \in {"401", "403"}
       THEN LET h == MarkFailedHeap(heap, tokens, auth_token, now)
                g == GetNextAtomic(h, tokens, current_index, now)
            IN  /\ heap' = g.heap
                /\ current_index' = g.current_index
                /\ IF g.token # <<>> /\ g.token # auth_token
                   THEN /\ auth_token' = g.token
                        /\ call_retry_count' = call_retry_count + 1
                        /\ UNCHANGED <<hpc, response, yielded, result>>
                   ELSE /\ Called(FALSE, ans, r)
                        /\ UNCHANGED <<auth_token, call_retry_count>>
       ELSE IF ans = "connection"
       THEN /\ IF call_retry_count < MAX_RETRIES - 1
               THEN /\ call_retry_count' = call_retry_count + 1
                    /\ UNCHANGED <<hpc, response, yielded, result>>
               ELSE /\ Called(TRUE, ans, r)
                    /\ UNCHANGED call_retry_count
            /\ UNCHANGED <<heap, current_index, auth_token>>
       ELSE IF ans = "other"
       THEN LET h == MarkFailedHeap(heap, tokens, auth_token, now)
                g == GetNextAtomic(h, tokens, current_index, now)
            IN  /\ heap' = g.heap
                /\ current_index' = g.current_index
                /\ IF /\ g.token # <<>>
                      /\ g.token # auth_token
                      /\ call_retry_count < MAX_RETRIES - 1
                   THEN /\ auth_token' = g.token
                        /\ call_retry_count' = call_retry_count + 1
                        /\ UNCHANGED <<hpc, response, yielded, result>>
                   ELSE /\ Called(TRUE, ans, r)
                        /\ UNCHANGED <<auth_token, call_retry_count>>
       ELSE IF ans \in {"429"} \cup ServerErrors
       THEN /\ IF call_retry_count < MAX_RETRIES - 1
               THEN /\ call_retry_count' = call_retry_count + 1
                    /\ UNCHANGED <<hpc, response, yielded, result>>
               ELSE /\ Called(FALSE, ans, r)
                    /\ UNCHANGED call_retry_count
            /\ UNCHANGED <<heap, current_index, auth_token>>
       ELSE /\ Called(FALSE, ans, r)
            /\ UNCHANGED <<heap, current_index, auth_token, call_retry_count>>
    /\ UNCHANGED <<handler, sent_initial_answer, self_first_thinking_chunk,
                   in_thinking_phase, full_content, has_tools,
                   buffered_content, message, handleRest>>

\* lines 206-231: StreamResponseHandler.handle takes the next event
StreamEvent ==
    /\ handler = "stream"
    /\ hpc = "read"
    /\ response.records # <<>>
    /\ LET ev == Head(response.records)
           p == ProcessContentWithTools(ev, sent_initial_answer,
                                        self_first_thinking_chunk, has_tools,
                                        buffered_content)
       IN  IF ev.error
           THEN /\ yielded' = yielded \o SendEndChunk
                /\ hpc' = "done"
                /\ result' = "returned"
                /\ UNCHANGED <<sent_initial_answer, self_first_thinking_chunk,
                               buffered_content>>
           ELSE /\ self_first_thinking_chunk' = p.first_thinking_chunk
                /\ buffered_content' = p.buffered_content
                /\ sent_initial_answer' =
                     (sent_initial_answer \/ ev.delta_content
                        \/ ev.edit_content # "none")
                /\ IF ev.done \/ ev.phase = "done"
                   THEN /\ yielded' = yielded \o p.out
                                         \o SendEndChunkWith(FALSE, has_tools,
                                                p.buffered_content)
                        /\ hpc' = "done"
                        /\ result' = "returned"
                   ELSE /\ yielded' = yielded \o p.out
                        /\ UNCHANGED <<hpc, result>>
    /\ response' = [response EXCEPT !.records = Tail(response.records)]
    /\ UNCHANGED <<handler, auth_token, call_retry_count, in_thinking_phase,
                   full_content, has_tools, message, heap, current_index,
                   handleRest>>

\* lines 233-246: the events are over, or the parser raises
StreamEnds ==
    /\ handler = "stream"
    /\ hpc = "read"
    /\ response.records = <<>>
    /\ yielded' = yielded
                    \o (IF response.raises THEN <<"interrupted">> ELSE <<>>)
                    \o SendEndChunkWith(TRUE, has_tools, buffered_content)
    /\ hpc' = "done"
    /\ result' = "returned"
    /\ UNCHANGED <<handler, auth_token, call_retry_count, response,
                   sent_initial_answer, self_first_thinking_chunk,
                   in_thinking_phase, full_content, has_tools,
                   buffered_content, message, heap, current_index,
                   handleRest>>

\* Closed that never adds the end of a thought
Closed_NoEndTag(fc, itp, ftc) == fc

\* lines 502-506: the content as handle() builds the response from it
Closed(fc, itp, ftc) == IF itp /\ ~ftc THEN Append(fc, "</think>") ELSE fc

\* lines 454-489: NonStreamResponseHandler.handle takes the next event
NonStreamEvent ==
    /\ handler = "nonstream"
    /\ hpc = "read"
    /\ response.records # <<>>
    /\ LET ev == Head(response.records)
           c == Collect_Event(ev, full_content, in_thinking_phase,
                              self_first_thinking_chunk)
       IN  /\ in_thinking_phase' = c.in_thinking_phase
           /\ self_first_thinking_chunk' = c.first_thinking_chunk
           /\ IF ev.done \/ ev.phase = "done"
              THEN /\ result' = Finish(TRUE, c.full_content)
                   /\ full_content' = Closed(c.full_content, c.in_thinking_phase,
                                             c.first_thinking_chunk)
                   /\ message' = BuildMessage(has_tools, full_content')
                   /\ hpc' = "done"
              ELSE /\ full_content' = c.full_content
                   /\ UNCHANGED <<hpc, result, message>>
    /\ response' = [response EXCEPT !.records = Tail(response.records)]
    /\ UNCHANGED <<handler, auth_token, call_retry_count, sent_initial_answer,
                   yielded, has_tools, buffered_content, heap, current_index,
                   handleRest>>

\* lines 490-507: the events are over, or the parser raises
NonStreamEnds ==
    /\ handler = "nonstream"
    /\ hpc = "read"
    /\ response.records = <<>>
    /\ result' = Finish(FALSE, full_content)
    /\ full_content' = IF Finish(FALSE, full_content) = "HTTPException"
                       THEN full_content
                       ELSE Closed(full_content, in_thinking_phase,
                                   self_first_thinking_chunk)
    /\ message' = IF Finish(FALSE, full_content) = "HTTPException"
                  THEN message
                  ELSE BuildMessage(has_tools, full_content')
    /\ hpc' = "done"
    /\ UNCHANGED <<handler, auth_token, call_retry_count, response,
                   sent_initial_answer, self_first_thinking_chunk,
                   in_thinking_phase, yielded, has_tools, buffered_content,
                   heap, current_index, handleRest>>

\* the pool as __init__ leaves it and a handler that has just been built
\* with a credential
InitHandler ==
    /\ Entered("none", <<>>)
    /\ NoChunks
    /\ handler \in {"stream", "nonstream"}
    /\ hpc = "call"
    /\ auth_token = current_token
    /\ call_retry_count = 0
    /\ response = Body(<<>>, FALSE)
    /\ sent_initial_answer = FALSE
    /\ self_first_thinking_chunk = TRUE
    /\ in_thinking_phase = FALSE
    /\ full_content = <<>>
    /\ yielded = <<>>
    /\ result = "none"
    /\ has_tools \in BOOLEAN
    /\ buffered_content = <<>>
    /\ message = NoMessage

NextHandler ==
    \/ \E ans \in Answers, r \in Responses : CallUpstream(ans, r)
    \/ StreamEvent
    \/ StreamEnds
    \/ NonStreamEvent
    \/ NonStreamEnds

SpecHandler == InitHandler /\ [][NextHandler]_vars

\* ============================================ claims on stream_response
\* how often x occurs in the sequence s
RECURSIVE Count(_, _)
Count(s, x) ==
    IF s = <<>> THEN 0
    ELSE (IF Head(s) = x THEN 1 ELSE 0) + Count(Tail(s), x)

\* the upstream calls made so far
Calls == Len(SelectSeq(attempts, LAMBDA a : a # "no_token"))

\* C11: stream_response always comes to an end, it never makes more than
\* MAX_RETRIES + 1 upstream calls, and it never ends without having sent a
\* closing [DONE] record.
C11_TerminatesWithinBound ==
    /\ [](Calls <= MAX_RETRIES + 1)
    /\ [](where = "done" => (out # <<>> /\ out[Len(out)] = "DONE"))
    /\ <>(where = "done")

\* the generator has ended after as many upstream calls as are allowed
C11_Witness == where = "done" /\ Calls = MAX_RETRIES + 1

\* the records that tell the client of an error
ErrorRecords == {"error_upstream", "error_auth", "error_rate_limit", "error_stream"}

\* how many error records the sequence s holds
Errors(s) == Len(SelectSeq(s, LAMBDA x : x \in ErrorRecords))

\* every pass of the loop so far called the upstream and got this answer
AlwaysAnswered(a) == \A i \in 1..Len(attempts) : attempts[i] = a

\* C12: when the upstream answers 503 every time, stream_response makes
\* exactly MAX_RETRIES + 1 upstream calls, sends nothing before the last of
\* them, and then sends exactly one error record (and the closing [DONE]).
C12_Always503 ==
    (attempts # <<>> /\ AlwaysAnswered("503"))
    => IF where = "done"
       THEN /\ Calls = MAX_RETRIES + 1
            /\ out = <<"error_upstream", "DONE">>
       ELSE /\ Calls <= MAX_RETRIES
            /\ out = <<>>

C12_Witness ==
    /\ where = "done"
    /\ Len(attempts) = MAX_RETRIES + 1
    /\ AlwaysAnswered("503")
    /\ Errors(out) = 1

\* the last entry of attempts after the step
LastAttempt == attempts'[Len(attempts')]

\* an upstream call ends in this step: with a status other than 200, or by
\* raising
AttemptFails == where = "send" /\ where' # "body" /\ attempts' # attempts

\* a retry starts in this step: lines 75-91 run
RetryStarts == where = "top" /\ 0 < retry_count /\ retry_count <= MAX_RETRIES

\* the credential in use is in the pool
Pooled(tok) == FirstEntry(heap, tokens, tok) # None

\* how attempts end that are not to be held against the credential
NotAttributed == {"429", "500", "503", "400", "transport"}

\* C13: an attempt that ends with 429, 5xx, 400 or a transport failure
\* leaves failure_count and is_active of the credential it used as they
\* were, both when it fails and when the retry after it starts.
C13_NotAttributed ==
    [][ /\ (AttemptFails /\ LastAttempt \in NotAttributed /\ Pooled(current_token))
           => HealthOf(heap', tokens', current_token)
              = HealthOf(heap, tokens, current_token)
        /\ ( /\ RetryStarts
             /\ attempts[Len(attempts)] \in NotAttributed
             /\ Pooled(current_token) )
           => HealthOf(heap', tokens', current_token)
              = HealthOf(heap, tokens, current_token) ]_vars

\* C14: an attempt that ends with 401 or 403 reports a failure on the
\* credential it used, once, and while retries are left the generator goes
\* round again, the next attempt starting with a credential got from
\* get_token.
C14_AuthFailureRotates ==
    [][ /\ (AttemptFails /\ LastAttempt \in {"401", "403"})
           => /\ reports' = reports + 1
              /\ Pooled(current_token)
                 => HealthOf(heap', tokens', current_token)[1]
                    = HealthOf(heap, tokens, current_token)[1] + 1
              /\ retry_count < MAX_RETRIES => where' = "top"
        /\ (RetryStarts /\ attempts[Len(attempts)] \in {"401", "403"}
               /\ where' = "send")
           => \E guest \in BOOLEAN :
                current_token' = get_token(guest, heap, tokens, current_index, now).token
      ]_vars

\* the statuses that are neither 200 nor 400, 401, 403, 429 nor 5xx
OtherStatuses ==
    { ToString(st) : st \in { x \in Statuses \ {200, 400, 401, 403, 429} : x < 500 } }

\* C15: an attempt that ends with a 5xx status is tried again while retries
\* are left, with nothing sent to the client; an attempt that ends with a
\* status other than 200, 400, 401, 403, 429 and 5xx is never tried again
\* and ends the stream with a terminal upstream error.
C15_ServerErrorsRetried ==
    [][ /\ (AttemptFails /\ LastAttempt \in ServerErrors /\ retry_count < MAX_RETRIES)
           => (where' = "top" /\ out' = out)
        /\ (AttemptFails /\ LastAttempt \in OtherStatuses)
           => (where' = "done" /\ out' = out \o <<"error_upstream", "DONE">>)
      ]_vars

\* C16: the failure reports made on credentials never outnumber the
\* upstream attempts made so far: each failed attempt is reported at most
\* once.
C16_OneReportPerAttempt == reports <= Calls

\* a body that is a trivial done stream
TrivialDone == <<Event("answer", TRUE, "none", FALSE), Event("done", FALSE, "none", TRUE)>>

\* C17: when the first attempt is answered 401 and the second 200 with a
\* trivial done stream, the first credential is reported failed, the second
\* attempt is made with another credential of the pool than the first, and
\* no error record is sent to the client; other requests may draw from the
\* pool at any moment.
C17_RetryAfter401 ==
    [][ /\ (where = "send" /\ attempts = <<>> /\ attempts' = <<"401">>)
           => /\ reports' = reports + 1
              /\ Pooled(current_token)
                 => HealthOf(heap', tokens', current_token)[1]
                      > HealthOf(heap, tokens, current_token)[1]
        /\ (where = "top" /\ attempts = <<"401">> /\ where' = "send"
              /\ Pooled(current_token) /\ Pooled(current_token'))
           => current_token' # current_token
        /\ (attempts' = <<"401", "200">> /\ where' = "done" /\ lines_read' = TrivialDone)
           => Errors(out') = 0
      ]_vars

\* the failures that are tried again: a transport error, 400, 429, 5xx,
\* 401, 403 and a fault while the body is read
RetryableFailures == {"transport", "400", "429", "401", "403", "read"} \cup ServerErrors

\* the error record that carries a failure of the given kind
ErrorRecordOf(a) ==
    IF a \in {"transport", "read"} THEN "error_stream"
    ELSE IF a = "401" THEN "error_auth"
    ELSE IF a = "429" THEN "error_rate_limit"
    ELSE "error_upstream"

\* C18: as long as every attempt has ended in a failure that is tried again
\* and attempts remain, no error record is sent to the client; when the
\* last attempt of the bound has failed so, the client gets exactly one
\* error record, the one of that last failure.
C18_ErrorsOnlyAtBound ==
    (attempts # <<>> /\ \A i \in 1..Len(attempts) : attempts[i] \in RetryableFailures)
    => /\ Len(attempts) <= MAX_RETRIES => Errors(out) = 0
       /\ (Len(attempts) = MAX_RETRIES + 1 /\ where = "done")
          => /\ Errors(out) = 1
             /\ Count(out, ErrorRecordOf(attempts[Len(attempts)])) = 1

\* the lines read are events of the thinking phase, each with text, and
\* then a done event
ThinkingThenDone ==
    /\ Len(lines_read) >= 2
    /\ \A i \in 1..(Len(lines_read) - 1) :
         /\ lines_read[i].kind = "event"
         /\ lines_read[i].phase = "thinking"
         /\ lines_read[i].delta_content
    /\ lines_read[Len(lines_read)].kind = "event"
    /\ lines_read[Len(lines_read)].phase = "done"

\* C20: when the one answered call has streamed only thinking events and
\* then done, the client has been sent exactly one <think> and exactly one
\* </think>, the first before the second, and every piece of thinking text
\* lies between the two.
C20_ThinkingOnlyMarkers ==
    (where = "done" /\ attempts = <<"200">> /\ ThinkingThenDone)
    => /\ Count(out, "<think>") = 1
       /\ Count(out, "</think>") = 1
       /\ \E i, j \in 1..Len(out) :
            /\ i < j
            /\ out[i] = "<think>"
            /\ out[j] = "</think>"
            /\ \A k \in 1..Len(out) : out[k] = "thinking" => (i < k /\ k < j)

\* C19: once the whole body has arrived, the events decoded are those
\* decoded from the same bytes given in one fragment, however the bytes
\* were split.
C19_FragmentationIndependent ==
    (pending = <<>> /\ arrived # <<>>)
    => events = Feed(<<>>, <<>>, <<>>, arrived).events

\* two answer deltas and then done with usage
TwoDeltasThenDone ==
    <<Event("answer", TRUE, "none", FALSE), Event("answer", TRUE, "none", FALSE),
      Event("done", FALSE, "none", TRUE)>>

\* C21: when the first call is answered 200 with two answer deltas and then
\* done with usage, the client is sent one role chunk, two content chunks,
\* one finish chunk and one [DONE], in this order and nothing else.
C21_PlainAnswer ==
    (where = "done" /\ attempts = <<"200">> /\ lines_read = TwoDeltasThenDone)
    => out = <<"role", "content", "content", "finish", "DONE">>

\* C22: the step in which the client's disconnection ends the generator,
\* and every step after it, reports no failure on any credential, leaves the
\* pool as it is and starts no upstream call; the generator stays ended.
C22_CancelNotAttributed ==
    [][ client' = "gone"
        => /\ where' = "closed"
           /\ reports' = reports
           /\ heap' = heap
           /\ attempts' = attempts
      ]_vars

\* the client went away in the delay of a retry
C22_Witness == client = "gone" /\ where = "closed" /\ retry_count > 0 /\ attempts # <<>>

\* C23: when a retry is given no credential, the request ends in that step
\* with one error record, without a further pass of the loop; and no
\* upstream call is ever made with an empty credential.
C23_NoCredentialFailsAtOnce ==
    [][ /\ (attempts' # attempts /\ LastAttempt = "no_token")
           => (where' = "done" /\ Errors(out') = Errors(out) + 1)
        /\ where' = "send" => current_token' # <<>>
      ]_vars

\* C24: when NonStreamResponseHandler.handle has ended, it has either raised
\* an HTTPException or returned a response, and it has returned a response
\* only if some content was collected.
C24_ResponseOnlyWithContent ==
    (handler = "nonstream" /\ hpc = "done")
    => /\ result \in {"HTTPException", "JSONResponse"}
       /\ result = "JSONResponse" => full_content # <<>>

\* C25: when StreamResponseHandler.handle has ended, the last two records
\* it has yielded are a finish chunk and [DONE].
C25_EndsWithFinishAndDone ==
    (handler = "stream" /\ hpc = "done")
    => /\ Len(yielded) >= 2
       /\ yielded[Len(yielded) - 1] \in {"finish", "finish_tool_calls"}
       /\ yielded[Len(yielded)] = "DONE"

\* the chunks that carry text of the answer or of the thought
ContentChunks == {"content", "thinking", "<think>"}

\* C26: over all attempts of the request, the client is sent at most one
\* role chunk, and every chunk with content comes after it.
C26_OneRoleChunk ==
    /\ Count(out, "role") <= 1
    /\ \A k \in 1..Len(out) :
         out[k] \in ContentChunks => \E i \in 1..(k - 1) : out[i] = "role"

\* the <think> and </think> among the records s
Markers(s) == SelectSeq(s, LAMBDA x : x \in {"<think>", "</think>"})

\* a thought has been opened in s and not closed
ThinkingOpen(s) == Len(Markers(s)) % 2 = 1

\* C27: in the first response, the markers sent are <think> and </think> in
\* turn, starting with <think>, so that </think> comes at most once per
\* thought and only after a thinking chunk; and a line of the answer phase
\* with edit_content or delta_content, read while a thought is open, sends
\* </think>.
C27_EndOfThought ==
    [][ (attempts' = <<"200">> /\ where = "body" /\ lines_read' # lines_read)
        => LET ev == Head(body.records)
           IN  /\ \A i \in 1..Len(Markers(out')) :
                    Markers(out')[i] = IF i % 2 = 1 THEN "<think>" ELSE "</think>"
               /\ (/\ ev.kind = "event"
                   /\ ev.phase = "answer"
                   /\ (ev.delta_content \/ ev.edit_content # "none")
                   /\ ThinkingOpen(out))
                  => Count(out', "</think>") = Count(out, "</think>") + 1
      ]_vars

\* C28: when the stream of the one answered call has ended, whatever its
\* last line was, the client has been sent exactly one finish chunk, it
\* comes before every [DONE], and no thought is left open.
C28_FinishAtEnd ==
    (where = "done" /\ attempts = <<"200">>)
    => /\ Count(out, "finish") = 1
       /\ \A i, j \in 1..Len(out) :
            (out[i] = "finish" /\ out[j] = "DONE") => i < j
       /\ ~ThinkingOpen(out)

\* the literal [DONE] is among the lines read from the body
SeenDone == \E i \in 1..Len(lines_read) : lines_read[i].kind = "DONE"

\* C29: a line read from the body after the line [DONE] of that body sends
\* nothing to the client.
C29_NothingAfterDone ==
    [][ (where = "body" /\ SeenDone /\ lines_read' # lines_read) => out' = out ]_vars

\* C30: a line that is skipped sends nothing, leaves the state of the
\* translation as it is and does not end the stream: the lines after it are
\* still to be read, and the generator is still reading.
C30_SkippedLinesSkipped ==
    [][ (where = "body" /\ body.records # <<>> /\ Head(body.records).kind = "skip")
        => /\ where' = "body"
           /\ body'.records = Tail(body.records)
           /\ out' = out
           /\ has_thinking' = has_thinking
           /\ first_thinking_chunk' = first_thinking_chunk
      ]_vars

\* an event after a skipped line has been processed
C30_Witness ==
    /\ where = "body"
    /\ Len(lines_read) >= 2
    /\ lines_read[1].kind = "skip"
    /\ lines_read[2].kind = "event"
    /\ out = <<"role", "content">>

\* the fragment that the step takes from the body
Fragment == SubSeq(pending, 1, Len(pending) - Len(pending'))

\* C31: when the bytes held, with the fragment that has just arrived, do
\* not decode and are no more than the maximum buffer size, the reader
\* keeps all of them and decodes no event in that step; and whatever the
\* step, the bytes held after it are the last bytes of those held before
\* it with the fragment, none of them changed.
C31_BytesKeptOnDecodeFailure ==
    [][ (pending' # pending /\ Len(buffer \o Fragment) <= BufferLimit)
        => LET b == buffer \o Fragment
           IN  /\ ~Utf8Decode(b).ok
                  => (buffer' = b /\ events' = events
                        /\ incomplete_line' = incomplete_line)
               /\ Len(buffer') <= Len(b)
               /\ buffer' = SubSeq(b, Len(b) - Len(buffer') + 1, Len(b))
      ]_vars

\* bytes that did not decode are held: the first byte of a character whose
\* second byte has yet to arrive
C31_Witness ==
    /\ buffer # <<>>
    /\ buffer[Len(buffer)] = "C3"
    /\ pending # <<>>
    /\ pending[1] = "A9"

C33_CursorWithinPool ==
    (lock = 0 /\ tokens # <<>>) => (0 <= current_index /\ current_index < Len(tokens))

\* a reload has just installed a list so short that the cursor of the
\* list before it is past its end
C33_Witness ==
    \E t \in Threads :
        /\ pc[t] = "installed"
        /\ tokens # <<>>
        /\ current_index >= Len(tokens)

\* C34: in every reachable state an entry that is inactive has a
\* failure_count >= max_failures; and a step on the entries as they stand
\* that lowers the failure_count of an entry leaves that entry active.
C34_InactiveOnlyAtThreshold ==
    /\ [](\A o \in Referenced(tokens, new_tokens) :
            ~heap[o].is_active => heap[o].failure_count >= max_failures)
    /\ [][(tokens' = tokens /\ new_tokens' = new_tokens /\ Len(heap') = Len(heap))
          => \A o \in Range(tokens) :
                 heap'[o].failure_count < heap[o].failure_count
                 => heap'[o].is_active]_vars

\* an inactive entry has taken a failure more than max_failures
C34_Witness ==
    \E i \in PoolEntries :
        /\ ~heap[tokens[i]].is_active
        /\ heap[tokens[i]].failure_count > max_failures

\* the pool: the entries of the list in order, the cursor and the time of
\* the last reload
PoolState == <<MapSeq(heap, tokens), current_index, last_reload_time>>

\* C35: a reload changes the pool only by installing a list, and it
\* installs a list only when the list holds a credential: a reload where
\* the file and BACKUP_TOKEN give none leaves the entries, their health,
\* the cursor and last_reload_time as they were, so that no step of a
\* reload leaves an empty list where there was a credential.
C35_EmptyReloadKeepsPool ==
    [][\A t \in Threads :
         /\ (pc[t] \in {"open", "lines", "backup", "decide"} /\ pc'[t] # "installed")
            => PoolState' = PoolState
         /\ pc'[t] = "install" => new_tokens'[t] # <<>>
         /\ (pc[t] = "decide" /\ Fallback(heap, new_tokens[t], backup).new = <<>>)
            => pc'[t] = AfterLoad(t)
         /\ tokens # <<>> => tokens' # <<>>]_vars

\* get_next_token has reloaded a pool whose entry had failed, nothing was
\* found to install, and the reload is as due as it was before
C35_Witness ==
    \E t \in Threads :
        /\ pc[t] = "select"
        /\ should_reload
        /\ tokens # <<>>
        /\ current_index > 0
        /\ \E i \in PoolEntries : heap[tokens[i]].failure_count > 0

\* C36: the list that a load or a reload has installed holds at most one
\* entry per credential value, so that the entry a report on a value
\* changes (the first with that value) is every entry of the list that
\* get_next_token can return for that value.
C36_OneEntryPerValue ==
    \A i, j \in PoolEntries :
        heap[tokens[i]].token = heap[tokens[j]].token
        => /\ i = j
           /\ FirstEntry(heap, tokens, heap[tokens[i]].token) = Some(tokens[i])

\* C37: with reloads running beside each other and beside reports, a
\* failure reported on a credential of the pool is not lost to a reload:
\* a reload that installs a list holding a credential value that the list
\* before it held leaves that value a failure_count no lower than it was.
C37_ReportSurvivesReloads ==
    [][\A t \in Threads :
         (pc[t] = "install" /\ pc'[t] = "installed")
         => \A v \in Values(heap, tokens) \cap Values(heap', tokens') :
                HealthOf(heap', tokens', v)[1] >= HealthOf(heap, tokens, v)[1]]_vars

\* the credential values reported on that the list does not hold
NotInPool == { token \in ReportTokens : FirstEntry(heap, tokens, token) = None }

\* C38: in every reachable state of the pool, mark_token_failed and
\* mark_token_success for a credential value that the list does not hold
\* (a guest credential, say) give back the entries as they are; and a step
\* of either with such a value changes neither an entry nor the list, the
\* cursor or last_reload_time.
C38_UnknownCredentialIgnored ==
    /\ [](\A token \in NotInPool :
            /\ MarkFailedHeap(heap, tokens, token, now) = heap
            /\ MarkSuccessHeap(heap, tokens, token) = heap)
    /\ [][\A t \in Threads, token \in NotInPool :
            (MarkTokenFailed(t, token) \/ MarkTokenSuccess(t, token))
            => UNCHANGED <<heap, tokens, current_index, last_reload_time>>]_vars

\* the guest credential can be reported on a pool that does not hold it,
\* one entry of which is healthy and one has a failure on record
C38_Witness ==
    /\ pc[MainThread] = "idle"
    /\ lock = 0
    /\ <<"g">> \in NotInPool
    /\ \E i, j \in PoolEntries :
          /\ heap[tokens[i]].failure_count > 0
          /\ heap[tokens[j]].failure_count = 0

\* the markers of s are <think> and </think> in turn, <think> first
Alternating(s) ==
    \A i \in 1..Len(Markers(s)) :
        Markers(s)[i] = IF i % 2 = 1 THEN "<think>" ELSE "</think>"

\* C39: in full_content of NonStreamResponseHandler.handle the markers are
\* never nested and no </think> comes without an open <think>, whatever
\* events have been collected; and in the content handle() builds the
\* response from, every <think> has its </think>.
C39_ThinkMarkersBalanced ==
    handler = "nonstream"
    => /\ Alternating(full_content)
       /\ result = Returns => ~ThinkingOpen(full_content)

\* a response with two thoughts, the second still open when the events
\* ended, has been built
C39_Witness ==
    /\ handler = "nonstream"
    /\ result = Returns
    /\ Markers(full_content) = <<"<think>", "</think>", "<think>", "</think>">>

\* C40: the request that an attempt is about to send carries one
\* credential, the one the orchestrator holds: it is in the Authorization
\* header and it is the token parameter of the url, also after a retry has
\* taken a new credential.
C40_SingleCredentialPerAttempt ==
    where = "send"
    => /\ transformed.Authorization = current_token
       /\ transformed.url_token = current_token

\* C10: when stream_response has ended, the stream it sent holds exactly
\* one [DONE] record and that record is the last one.
C10_ExactlyOneDoneAtEnd ==
    where = "done" => /\ Count(out, "DONE") = 1
                      /\ out[Len(out)] = "DONE"


====
